---- MODULE Spec2Model ----
(***************************************************************************)
(* Model of the validation orchestrator of SimpleTuner                     *)
(* (helpers/training/validation.py, class Validation): the guard of        *)
(* run_validations, pipeline construction with retries, scheduler setup,   *)
(* per-prompt / per-resolution generation with the EMA swap, saving,       *)
(* scoring, tracker reporting and clean-up, and the parsing of the         *)
(* configured validation resolutions.  Python exceptions are               *)
(* modelled explicitly: an exception that leaves run_validations reaches   *)
(* the training loop and ends the run (pc = "aborted").                    *)
(***************************************************************************)
EXTENDS Integers, Sequences, FiniteSets, TLC

VARIABLES
    args,               \* self.args: the run's configuration
    tracker_step,       \* StateTracker.get_global_step()
    global_step,        \* self.global_step
    global_resume_step, \* self.global_resume_step
    pc,                 \* position of the current run_validations call
    call,               \* count and outcome of the run_validations calls
    guard,              \* arguments and decision of the guard last evaluated
    pipeline,           \* self.pipeline
    vae,                \* self.vae
    multiplier,         \* accelerator._lycoris_wrapped_network multiplier
    attempt,            \* local `attempt` of setup_pipeline
    validation_images,  \* self.validation_images
    local_images,       \* local `validation_images` of process_prompts
    prompt_idx,         \* position of the for loop of process_prompts
    res_idx,            \* position of the for loop of validate_prompt
    vp,                 \* locals of validate_prompt
    eval_scores,        \* self.eval_scores
    evaluation_result,  \* self.evaluation_result
    ema_enabled,        \* self.ema_enabled
    live,               \* the values held by the model's parameters
    temp_stored_params, \* ema_model.temp_stored_params
    ema_log,            \* the ema_model calls made so far
    saved_files,        \* files under <output_dir>/validation_images
    faults,             \* exceptions the collaborators have raised so far
    parsed,             \* the last resolution-parsing call and its outcome
    flux,               \* the transformer's forward call: arguments and locals
    lora_scaling,       \* the scaling of the transformer's adapter layers
    attention_calls,    \* what each attention call of the forward pass computed
    previous,           \* arguments and sample of the forward pass before
    gathered,           \* the last _gather_prompt_embeds call and its outcome
    benchmarks,         \* <output_dir>/benchmarks/base_model and its files
    trace               \* what the current validation cycle did, in order

vars == <<args, tracker_step, global_step, global_resume_step, pc, call, guard,
          pipeline, vae, multiplier, attempt, validation_images, local_images,
          prompt_idx, res_idx, vp, eval_scores, evaluation_result, ema_enabled,
          live, temp_stored_params, ema_log, saved_files, faults, parsed,
          flux, lora_scaling, attention_calls, previous, gathered,
          benchmarks, trace>>

\* -------------------------------------------------------------- bounds
\* Prompts in the configured prompt list, resolutions in validation_resolution,
\* run_validations calls of one training run, and exceptions the collaborators
\* (embedding cache, pipeline call, trackers) raise in one training run.
NumPrompts == 2
NumRes == 2
MaxCalls == 2
MaxFaults == 1
\* Calls of enable_ / disable_ema_for_inference in the EMA specification.
MaxEmaCalls == 4
\* The transformer's batch: rows, text tokens and image tokens; its
\* dual-stream and single-stream blocks; forward calls in one run.
MaxBatch == 2
MaxTextLen == 2
MaxImageLen == 2
NumLayers == 1
NumSingleLayers == 1
MaxForwards == 2
\* Blocks of each kind and the checkpointing interval, where they vary.
MaxLayers == 2
MaxInterval == 2
\* Elements of the tuple the embedding cache returns for a prompt.
MaxArity == 5
\* The last global step of the training run.
MaxStep == 3
\* Comma-separated elements of a configured validation_resolution.
MaxElements == 2

\* The value Python's None is modelled by.
None == "None"
\* `while attempt < 3` of setup_pipeline.
MaxAttempts == 3
\* LyCORIS multipliers in tenths: set_multiplier(1.0), and the configured
\* validation_lycoris_strength.
UnitMultiplier == 10
\* The smallest edge DeepFloyd stage 2 accepts.
MinStage2Resolution == 256

\* ------------------------------------------------------- configuration
EmaValidationModes == {"none", "ema_only", "comparison"}
ValidationTypes == {"intermediary", "final", "base_model"}
\* The values of StateTracker.get_global_step().
GlobalSteps == 0..MaxStep
\* The batch index `step` the training loop passes to run_validations.
Steps == {0, 1}

\* The attributes __init__ assigns on the Validation object.
InstanceAttributes ==
    {"trainable_parameters", "accelerator", "args", "global_step",
     "global_resume_step", "validation_prompts", "validation_shortnames",
     "validation_images", "ema_model", "ema_enabled", "vae", "pipeline",
     "deepfloyd", "deepfloyd_stage2", "validation_resolutions",
     "flow_matching", "deepspeed", "inference_device", "model_evaluator",
     "eval_scores"}

\* self.flow_matching as __init__ computes it.
flow_matching(a) ==
    \/ (a.model_family = "sd3" /\ a.flow_matching_loss # "diffusion")
    \/ a.model_family = "flux"

\* The values of args.model_type, and self.deepfloyd / self.deepfloyd_stage2:
\* whether the model type contains "deepfloyd" / "deepfloyd-stage2".
ModelTypes ==
    {"full", "lora", "deepfloyd-full", "deepfloyd-lora",
     "deepfloyd-stage2-lora"}
deepfloyd(a) ==
    a.model_type \in {"deepfloyd-full", "deepfloyd-lora", "deepfloyd-stage2-lora"}
deepfloyd_stage2(a) == a.model_type = "deepfloyd-stage2-lora"

\* hasattr(self.accelerator, "_lycoris_wrapped_network")
HasLycoris(a) == a.model_type = "lora" /\ a.lora_type = "lycoris"

\* ------------------------------------------- validation resolutions
\* Python values as the parsing functions see them: an int, or a str as the
\* sequence of its characters.
PyInt(n) == [type |-> "int", n |-> n, s |-> <<>>]
PyStr(s) == [type |-> "str", n |-> 0, s |-> s]

DigitChars == <<"0", "1", "2", "3", "4", "5", "6", "7", "8", "9">>
Digits == {DigitChars[i] : i \in DOMAIN DigitChars}
DigitValue(c) == (CHOOSE i \in DOMAIN DigitChars : DigitChars[i] = c) - 1

\* str(n) for a natural number n.
RECURSIVE Str(_)
Str(n) ==
    IF n < 10 THEN <<DigitChars[n + 1]>>
    ELSE Str(n \div 10) \o <<DigitChars[(n % 10) + 1]>>

\* s.isdigit(), and int(s) where it is defined (int(s) raises ValueError
\* on any other string of this alphabet).
isdigit(s) == s # <<>> /\ \A i \in DOMAIN s : s[i] \in Digits
RECURSIVE IntOf(_)
IntOf(s) ==
    IF s = <<>> THEN 0
    ELSE IntOf(SubSeq(s, 1, Len(s) - 1)) * 10 + DigitValue(s[Len(s)])

\* s.strip(): int(s) ignores the whitespace around the digits.
RECURSIVE strip(_)
strip(s) ==
    IF s = <<>> THEN s
    ELSE IF Head(s) = " " THEN strip(Tail(s))
    ELSE IF s[Len(s)] = " " THEN strip(SubSeq(s, 1, Len(s) - 1))
    ELSE s

\* `c in s` and s.split(c) for a one-character separator.
Contains(s, c) == \E i \in DOMAIN s : s[i] = c
RECURSIVE Split(_, _)
Split(s, c) ==
    IF ~Contains(s, c) THEN <<s>>
    ELSE LET i == CHOOSE k \in DOMAIN s :
                      s[k] = c /\ \A j \in 1..(k - 1) : s[j] # c
         IN  <<SubSeq(s, 1, i - 1)>> \o Split(SubSeq(s, i + 1, Len(s)), c)

\* `"deepfloyd-stage2" in StateTracker.get_args().model_type`
IsAnyDeepFloyd(a) ==
    a.model_type \in {"deepfloyd-full", "deepfloyd-lora", "deepfloyd-stage2-lora"}
is_df_ii(a) == a.model_type = "deepfloyd-stage2-lora"

\* What a parsing call leaves: an exception, None, or a (width, height) tuple.
ParseRaises(exc) ==
    [raised |-> TRUE, exception |-> exc, none |-> FALSE,
     w |-> PyInt(0), h |-> PyInt(0)]
ParseNone ==
    [raised |-> FALSE, exception |-> None, none |-> TRUE,
     w |-> PyInt(0), h |-> PyInt(0)]
ParseTuple(w, h) ==
    [raised |-> FALSE, exception |-> None, none |-> FALSE, w |-> w, h |-> h]

\* parse_validation_resolution(input_str) under the configuration a.
parse_validation_resolution(a, input_str) ==
    IF input_str.type = "int" \/ isdigit(input_str.s)
    THEN LET n == IF input_str.type = "int" THEN input_str.n
                  ELSE IntOf(input_str.s)
         IN  IF is_df_ii(a) /\ n < MinStage2Resolution
             THEN ParseRaises("ValueError")
             ELSE ParseTuple(input_str, input_str)
    ELSE IF Contains(input_str.s, "x")
    THEN LET pieces == Split(input_str.s, "x")
             width == strip(pieces[1])
             height == strip(pieces[2])
         IN  IF ~isdigit(width)
             THEN ParseRaises("ValueError")
             ELSE IF is_df_ii(a) /\ IntOf(width) < MinStage2Resolution
             THEN ParseRaises("ValueError")
             ELSE IF ~isdigit(height)
             THEN ParseRaises("ValueError")
             ELSE IF is_df_ii(a) /\ IntOf(height) < MinStage2Resolution
             THEN ParseRaises("ValueError")
             ELSE ParseTuple(PyInt(IntOf(width)), PyInt(IntOf(height)))
    ELSE ParseNone

\* The list comprehension of get_validation_resolutions: the first element
\* whose parsing raises ends it.
RECURSIVE ParseEach(_, _, _)
ParseEach(a, pieces, acc) ==
    IF pieces = <<>> THEN [raised |-> FALSE, exception |-> None, value |-> acc]
    ELSE LET r == parse_validation_resolution(a, PyStr(Head(pieces)))
         IN  IF r.raised
             THEN [raised |-> TRUE, exception |-> r.exception, value |-> <<>>]
             ELSE ParseEach(a, Tail(pieces), Append(acc, r))

\* get_validation_resolutions() under the configuration a.
get_validation_resolutions(a) ==
    LET validation_resolution_parameter == a.validation_resolution
    IN  IF /\ validation_resolution_parameter.type = "str"
           /\ Contains(validation_resolution_parameter.s, ",")
        THEN ParseEach(a, Split(validation_resolution_parameter.s, ","), <<>>)
        ELSE LET r == parse_validation_resolution(a, validation_resolution_parameter)
             IN  IF r.raised
                 THEN [raised |-> TRUE, exception |-> r.exception, value |-> <<>>]
                 ELSE [raised |-> FALSE, exception |-> None, value |-> <<r>>]

\* A configured validation_resolution of n elements: "512", "768x512", ...
RECURSIVE ConfiguredResolution(_)
ConfiguredResolution(n) ==
    LET element == IF n % 2 = 1 THEN Str(512)
                   ELSE Str(768) \o <<"x">> \o Str(512)
    IN  IF n <= 1 THEN element
        ELSE ConfiguredResolution(n - 1) \o <<",">> \o element

\* The configuration a with n validation resolutions.
WithResolutions(a, n) ==
    [a EXCEPT !.nres = n,
              !.validation_resolution = PyStr(ConfiguredResolution(n))]

\* The base configuration; the specifications vary some of its fields.
BaseArgs ==
    [is_main_process |-> TRUE, deepspeed |-> FALSE,
     validation_steps |-> 1, gradient_accumulation_steps |-> 1,
     resume_step |-> 0,
     nprompts |-> NumPrompts, nres |-> NumRes,
     validation_resolution |-> PyStr(ConfiguredResolution(NumRes)),
     num_validation_images |-> 1,
     use_ema |-> FALSE, ema_validation |-> "none",
     model_type |-> "full", lora_type |-> "standard",
     model_evaluator |-> FALSE, validation_lycoris_strength |-> 5,
     validation_seed |-> [set |-> FALSE, n |-> 0],
     seed |-> [set |-> FALSE, n |-> 0],
     validation_randomize |-> FALSE, validation_seed_source |-> "cpu",
     keep_vae_loaded |-> FALSE, vae_cache_ondemand |-> FALSE,
     controlnet |-> FALSE, validation_using_datasets |-> FALSE,
     model_family |-> "sdxl", flow_matching_loss |-> "compatible",
     validation_noise_scheduler |-> "euler",
     disable_benchmark |-> FALSE, benchmark |-> FALSE,
     flux_attention_masked_training |-> FALSE]

\* __init__ exits the process when DeepSpeed is combined with EMA validation.
ConstructorAccepts(a) ==
    ~(a.deepspeed /\ a.use_ema /\ a.ema_validation # "none")


\* ------------------------------------------------------ benchmarks
\* f"{value}" and int(value) of a resolution element.
Format(value) == IF value.type = "int" THEN Str(value.n) ELSE value.s
int(value) == IF value.type = "int" THEN value.n ELSE IntOf(value.s)

\* MultiaspectImage._round_to_nearest_multiple(value): the nearest multiple
\* of the alignment (a tie goes to the even quotient, as round() does), and
\* never less than one alignment.
Alignment == 64
_round_to_nearest_multiple(value) ==
    LET q == value \div Alignment
        twice == 2 * (value % Alignment)
        rounded == IF twice < Alignment THEN q
                   ELSE IF twice > Alignment THEN q + 1
                   ELSE IF q % 2 = 0 THEN q ELSE q + 1
    IN  IF rounded * Alignment > Alignment THEN rounded * Alignment
        ELSE Alignment

\* The r-th element of self.validation_resolutions, and the height and width
\* validate_prompt passes to the pipeline for it: the size of its images.
\* (With an input image the code takes the size of that image instead; the
\* conditioning images are taken to be of the configured size.)
Resolution(a, r) == get_validation_resolutions(a).value[r]
GeneratedSize(a, r) ==
    <<_round_to_nearest_multiple(int(Resolution(a, r).w)),
      _round_to_nearest_multiple(int(Resolution(a, r).h))>>

\* image.size of an image generated for resolution r: as generated, stitched
\* with its conditioning image, with a benchmark of its own size, and with its
\* EMA counterpart on top of that.
separator_width == 5
ImageSize(a, image) ==
    LET size == GeneratedSize(a, image.r)
    IN  IF image.stitch = "" THEN size
        ELSE IF image.stitch = "conditioning" THEN <<size[1] * 2, size[2]>>
        ELSE IF image.stitch = "benchmark"
        THEN <<size[1] + size[1] + separator_width, size[2]>>
        ELSE <<(size[1] + size[1] + separator_width) + size[1] + separator_width,
               size[2]>>

\* f"{shortname}_{width}x{height}.png" of save_benchmark and
\* f"{shortname}_{resolution[0]}x{resolution[1]}.png" of _benchmark_image.
BenchmarkFilename(shortname, size) == <<shortname, Str(size[1]), Str(size[2])>>
_test_filename(shortname, resolution) ==
    <<shortname, Format(resolution.w), Format(resolution.h)>>

\* benchmark_exists(): the directory benchmarks/base_model is there.
benchmark_exists(b) == b.exists

\* _benchmark_image(shortname, resolution): the stored benchmark, or None.
_benchmark_image(b, shortname, resolution) ==
    IF ~benchmark_exists(b) THEN None
    ELSE IF \E f \in b.files : f.name = _test_filename(shortname, resolution)
    THEN "image"
    ELSE None

\* The files save_benchmark writes for the images of one shortname: a later
\* image of the list overwrites an earlier one of the same file name.  Each
\* file remembers the resolution its image was generated for.
BenchmarkFiles(a, shortname, image_list) ==
    {[name |-> BenchmarkFilename(shortname, ImageSize(a, image_list[i])),
      shortname |-> shortname, r |-> image_list[i].r] :
        i \in {k \in DOMAIN image_list :
                  \A j \in DOMAIN image_list :
                      j > k => ImageSize(a, image_list[j])
                               # ImageSize(a, image_list[k])}}

\* save_benchmark(): make the directory and, unless validation_images is None,
\* write one file per image.
save_benchmark(a, b, images) ==
    IF ~images.set THEN [b EXCEPT !.exists = TRUE]
    ELSE LET new == UNION {BenchmarkFiles(a, p, images.images[p]) :
                              p \in DOMAIN images.images}
         IN  [exists |-> TRUE,
              files |-> {f \in b.files : \A g \in new : g.name # f.name}
                        \cup new]

\* The directory a base-model run of the configuration a left behind, when
\* the run starts with one: one generated image per prompt and resolution.
NoBenchmarks == [exists |-> FALSE, files |-> {}]
StoredBenchmarks(a) ==
    IF a.benchmark
    THEN [exists |-> TRUE,
          files |-> {[name |-> BenchmarkFilename(p, GeneratedSize(a, r)),
                      shortname |-> p, r |-> r] :
                        p \in 1..a.nprompts, r \in 1..a.nres}]
    ELSE NoBenchmarks

\* ------------------------------------------------- parameters and EMA
\* The parameters of the primary model (unet / transformer) and of the LyCORIS
\* network wrapped around it, in the order .parameters() yields them.
ParamNames == {"w1", "w2", "l1", "l2"}
PrimaryParameters == <<"w1", "w2">>
LycorisParameters == <<"l1", "l2">>

\* Parameter.requires_grad: a full fine-tune trains every weight of the primary
\* model, a standard LoRA only the adapter weights held in it, LyCORIS none of it.
requires_grad(a, p) ==
    IF a.model_type = "lora"
    THEN (a.lora_type = "standard" /\ p = "w2")
    ELSE p \in {"w1", "w2"}

\* [x for x in self._primary_model().parameters() if x.requires_grad]
PrimaryTrainable(a) ==
    LET Keep(p) == requires_grad(a, p) IN SelectSeq(PrimaryParameters, Keep)

\* self.trainable_parameters(): the callable the trainer hands to __init__.
trainable_parameters(a) ==
    IF HasLycoris(a) THEN LycorisParameters ELSE PrimaryTrainable(a)

\* The weights training has produced, and the shadow weights of the EMA model.
TrainValue(p) == <<"train", p>>
ShadowValue(i) == <<"ema", i>>
TrainWeights == [p \in ParamNames |-> TrainValue(p)]

Min(x, y) == IF x <= y THEN x ELSE y

\* ema_model.temp_stored_params = None
NoStoredParams == [stored |-> FALSE, values |-> <<>>]

\* EMAModel.store: keep a copy of the given parameters' current values.
EmaStore(e, params) ==
    [e EXCEPT !.temp = [stored |-> TRUE,
                        values |-> [i \in 1..Len(params) |-> e.live[params[i]]]],
              !.log = Append(e.log, "store")]

\* EMAModel.copy_to: write the shadow weights into the given parameters.
EmaCopyTo(e, params) ==
    [e EXCEPT !.live = [p \in ParamNames |->
                           IF \E i \in 1..Len(params) : params[i] = p
                           THEN ShadowValue(CHOOSE i \in 1..Len(params) : params[i] = p)
                           ELSE e.live[p]],
              !.log = Append(e.log, "copy_to")]

\* EMAModel.restore: write the kept copies back, pairing copies and parameters
\* by position, and drop the copies.
EmaRestore(e, params) ==
    IF ~e.temp.stored
    THEN [e EXCEPT !.error = "RuntimeError"]
    ELSE [e EXCEPT !.live = [p \in ParamNames |->
                           IF \E i \in 1..Min(Len(params), Len(e.temp.values)) : params[i] = p
                           THEN e.temp.values[CHOOSE i \in 1..Min(Len(params), Len(e.temp.values)) : params[i] = p]
                           ELSE e.live[p]],
                  !.temp = NoStoredParams,
                  !.log = Append(e.log, "restore")]

\* The parameter collection enable_ema_for_inference stores from and copies into.
EnableParameters(a) ==
    IF a.model_type = "lora"
    THEN IF a.lora_type = "lycoris" THEN LycorisParameters ELSE PrimaryTrainable(a)
    ELSE trainable_parameters(a)

\* The parameter collection disable_ema_for_inference restores into.
DisableParametersOfModel(a) ==
    IF HasLycoris(a) THEN LycorisParameters ELSE PrimaryParameters
DisableParameters(a) ==
    IF a.model_type = "lora" /\ a.lora_type = "lycoris"
    THEN LycorisParameters
    ELSE trainable_parameters(a)

\* The guard of enable_ema_for_inference: nothing is done when EMA is already on.
EnableNeverReturnsEarly(e) == FALSE
EnableReturnsEarly(e) == e.ema_enabled

\* The guard of disable_ema_for_inference: nothing is done when EMA is off.
DisableReturnsEarly(e) == ~e.ema_enabled

enable_ema_for_inference(a, e) ==
    IF EnableReturnsEarly(e) THEN e
    ELSE IF a.use_ema
    THEN LET e1 == [e EXCEPT !.ema_enabled = TRUE,
                             !.mult = IF HasLycoris(a) THEN UnitMultiplier ELSE e.mult]
         IN  EmaCopyTo(EmaStore(e1, EnableParameters(a)), EnableParameters(a))
    ELSE e

disable_ema_for_inference(a, e) ==
    IF DisableReturnsEarly(e) THEN e
    ELSE IF a.use_ema
    THEN LET e1 == [e EXCEPT !.ema_enabled = FALSE,
                             !.mult = IF HasLycoris(a) THEN UnitMultiplier ELSE e.mult]
         IN  EmaRestore(e1, DisableParameters(a))
    ELSE e

\* The EMA-related part of the state, as the two operations read and write it.
EmaState ==
    [ema_enabled |-> ema_enabled, live |-> live, temp |-> temp_stored_params,
     log |-> ema_log, mult |-> multiplier, error |-> None]


\* ------------------------------------------------------ the guard
\* Reading self.<name>: an attribute __init__ never assigned raises.
AttributeRaises(name) == name \notin InstanceAttributes

\* The attribute should_perform_validation reads beside is_main_process.
ShardedFlagName == "deepseed"

\* The cadence test of should_perform_validation (truthiness of the and-chain).
CadenceAtResumeStep(a, gs, grs, step) ==
    /\ a.nprompts > 0
    /\ gs % a.validation_steps = 0
    /\ step % a.gradient_accumulation_steps = 0
    /\ gs >= grs
should_do_intermediary_validation(a, gs, grs, step) ==
    /\ a.nprompts > 0
    /\ gs % a.validation_steps = 0
    /\ step % a.gradient_accumulation_steps = 0
    /\ gs > grs

\* should_perform_validation: [raised, value].  `x and (m or self.deepseed)`
\* reads the attribute only when x is true and m is false.
should_perform_validation(a, gs, grs, step, validation_type) ==
    LET is_final_validation == validation_type = "final"
        first == is_final_validation
                 \/ should_do_intermediary_validation(a, gs, grs, step)
    IN  IF ~first THEN [raised |-> FALSE, value |-> FALSE]
        ELSE IF a.is_main_process THEN [raised |-> FALSE, value |-> TRUE]
        ELSE IF AttributeRaises(ShardedFlagName)
             THEN [raised |-> TRUE, value |-> FALSE]
             ELSE [raised |-> FALSE, value |-> a.deepspeed]

\* _update_state: `StateTracker.get_global_resume_step() or 1`
ResumeStepOrOne(a) == IF a.resume_step = 0 THEN 1 ELSE a.resume_step

\* ------------------------------------------- the Flux transformer
\* Tensors are modelled by their token axis: a sequence of tokens, each
\* carrying the stream and position it entered the forward pass at and, per
\* block it went through, what the attention computed for it.  The batch
\* axis is carried as a size (every row is processed alike).
Token(stream, i) == [stream |-> stream, index |-> i, history |-> <<>>]
Origin(t) == <<t.stream, t.index>>
Tokens(stream, n) == [i \in 1..n |-> Token(stream, i)]
Origins(seq) == [i \in DOMAIN seq |-> Origin(seq[i])]

\* An attention mask: None, or a [bsz, seq_len] tensor of 0 / 1 entries.
NoMask == [set |-> FALSE, bsz |-> 0, dtype |-> "none", values |-> <<>>]
Mask(bsz, dtype, values) ==
    [set |-> TRUE, bsz |-> bsz, dtype |-> dtype, values |-> values]

\* The least entry of a non-empty sequence of numbers.
MinOf(values) ==
    CHOOSE v \in {values[i] : i \in DOMAIN values} :
        \A i \in DOMAIN values : v <= values[i]

\* F.scaled_dot_product_attention(query, key, value, attn_mask): per key, does
\* it take part and with which additive bias on its score (a softmax is
\* unchanged by a bias common to all keys).  A boolean mask keeps the keys
\* marked True; a floating-point mask is added to the scores and removes no
\* key.
scaled_dot_product_attention(nkeys, attn_mask) ==
    [j \in 1..nkeys |->
        IF ~attn_mask.set THEN [attends |-> TRUE, bias |-> 0]
        ELSE LET v == attn_mask.values[j]
             IN  IF attn_mask.dtype = "bool"
                 THEN [attends |-> v > 0, bias |-> 0]
                 ELSE [attends |-> TRUE, bias |-> v - MinOf(attn_mask.values)]]

\* Lines 133-138 of FluxAttnProcessor2_0.__call__: unsqueeze twice, compare
\* with 0, convert to bool, then convert to the dtype of hidden_states.
KernelMask(attention_mask) ==
    IF ~attention_mask.set THEN attention_mask
    ELSE Mask(attention_mask.bsz, "float",
              [j \in DOMAIN attention_mask.values |->
                  IF attention_mask.values[j] > 0 THEN 1 ELSE 0])

\* torch.cat of the text-side and the image-side tensors along the token
\* axis, as the processor, the dual-stream block and forward write it.
TextFirst(text, image) == text \o image

\* expand_flux_attention_mask(hidden_states, attn_mask): [raised, mask].
ExpandRaises(bsz, seq_len, attn_mask) ==
    \/ attn_mask.bsz # bsz
    \/ Len(attn_mask.values) > seq_len
ExpandedWithZeros(bsz, seq_len, attn_mask) ==
    Mask(bsz, "float",
         [j \in 1..seq_len |->
             IF j <= Len(attn_mask.values) THEN attn_mask.values[j] ELSE 0])
expand_flux_attention_mask(bsz, seq_len, attn_mask) ==
    Mask(bsz, "float",
         [j \in 1..seq_len |->
             IF j <= Len(attn_mask.values) THEN attn_mask.values[j] ELSE 1])

\* One call of FluxAttnProcessor2_0: the record of what reached the kernel
\* (the keys, the sequence the block expanded the mask over, the rotary
\* embedding, the mask the block passed and the mask after lines 133-138),
\* and the attention output per query position of the merged sequence.
AttentionCall(block, merged, over, image_rotary_emb, attention_mask, scale) ==
    LET mask == KernelMask(attention_mask)
    IN  [block |-> block,
         checkpointed |-> FALSE,
         temb |-> "",
         given_mask |-> NoMask,
         keys |-> Origins(merged),
         over |-> Origins(over),
         rotary |-> image_rotary_emb,
         expanded |-> attention_mask,
         mask |-> mask,
         weights |-> scaled_dot_product_attention(Len(merged), mask),
         scale |-> scale]

\* The attention output at query position q.
AttentionOutput(c, q) ==
    [query |-> c.keys[q], keys |-> c.keys, rotary |-> c.rotary[q],
     weights |-> c.weights, block |-> c.block, scale |-> c.scale]

\* `hidden_states[:, : encoder_hidden_states.shape[1]]` and
\* `hidden_states[:, encoder_hidden_states.shape[1] :]`
TextPart(seq, text_len) == SubSeq(seq, 1, Min(text_len, Len(seq)))
ImagePartIsPrefix(seq, text_len) == SubSeq(seq, 1, Len(seq) - text_len)
ImagePart(seq, text_len) == SubSeq(seq, text_len + 1, Len(seq))

\* The forward call: the model's batch (fixed for the run), the arguments of
\* the call in progress, and its locals.
NoKwargs == [set |-> FALSE, has_scale |-> FALSE, scale |-> 0]
Kwargs(has_scale, scale) == [set |-> TRUE, has_scale |-> has_scale, scale |-> scale]
ForwardOf(peft, bsz, text_len, image_len) ==
    [USE_PEFT_BACKEND |-> peft, bsz |-> bsz, text_len |-> text_len,
     image_len |-> image_len, pc |-> "idle", calls |-> 0,
     attention_mask |-> NoMask, joint_attention_kwargs |-> NoKwargs,
     kwargs |-> NoKwargs, lora_scale |-> 0, entry_scaling |-> 0,
     hidden_states |-> <<>>, encoder_hidden_states |-> <<>>,
     image_rotary_emb |-> <<>>, index_block |-> 0,
     num_layers |-> NumLayers, num_single_layers |-> NumSingleLayers,
     training |-> FALSE, gradient_checkpointing |-> FALSE,
     interval_set |-> FALSE, gradient_checkpointing_interval |-> 0,
     temb |-> "", norm_out_emb |-> "",
     outcome |-> "none", sample |-> <<>>]
NoForward == ForwardOf(FALSE, 0, 0, 0)
NoSample == [set |-> FALSE, attention_mask |-> NoMask, kwargs |-> NoKwargs,
             sample |-> <<>>]

\* residual + attention output, token by token; tensors of different
\* token counts do not add.
AddRaises(residual, out) == Len(residual) # Len(out)
Add(residual, out) ==
    [i \in DOMAIN residual |->
        [residual[i] EXCEPT !.history = Append(residual[i].history, out[i])]]

\* ------------------------------------------------------ events
Ev(ev, p, r, t) == [ev |-> ev, p |-> p, r |-> r, t |-> t]

NoCall == [n |-> 0, outcome |-> "none", exception |-> None]
\* No guard evaluated, or its locals no longer live (the cycle is running).
NoGuard ==
    [evaluated |-> FALSE, step |-> 0, validation_type |-> "intermediary",
     force_evaluation |-> FALSE, skip_execution |-> FALSE,
     should_validate |-> FALSE]

NoPipeline == [built |-> FALSE, scheduler |-> None, replaced |-> FALSE]
NoImages == [set |-> FALSE, images |-> <<>>]
NoResult == [set |-> FALSE, min |-> 0, max |-> 0, sum |-> 0, n |-> 0]
NoLocals == [stitched |-> <<>>, checkpoint |-> <<>>, ema |-> <<>>,
             benchmark_image |-> "unbound"]

\* No _gather_prompt_embeds call made yet; a tensor of the embedding cache
\* (told apart by its position in the tuple the cache returned) and None.
Tensor(i) == <<"tensor", i>>
NoTensor == <<"None", 0>>
NoBinding == [prompt_embeds |-> NoTensor, pooled_embeds |-> NoTensor,
              time_ids |-> NoTensor, prompt_mask |-> NoTensor]
NoEmbeds == [prompt_embeds |-> NoTensor, pooled_prompt_embeds |-> NoTensor,
             has_prompt_mask |-> FALSE, prompt_mask |-> NoTensor]
NoGather == [called |-> FALSE, _embed |-> <<>>, raised |-> FALSE,
             exception |-> None, bound |-> NoBinding, result |-> NoEmbeds]

\* No parsing call made yet.
NoParse == [op |-> "none", input |-> PyInt(0), raised |-> FALSE, value |-> <<>>]

\* The state __init__ leaves behind, for a configuration a and a transformer
\* whose forward has not been called.
InitOf(a, forward) ==
    /\ args = a
    /\ tracker_step = 0
    /\ global_step = 0
    /\ global_resume_step = ResumeStepOrOne(a)
    /\ pc = "idle"
    /\ call = NoCall
    /\ guard = NoGuard
    /\ pipeline = NoPipeline
    /\ vae = None
    /\ multiplier = UnitMultiplier
    /\ attempt = 0
    /\ validation_images = NoImages
    /\ local_images = <<>>
    /\ prompt_idx = 0
    /\ res_idx = 0
    /\ vp = NoLocals
    /\ eval_scores = <<>>
    /\ evaluation_result = NoResult
    /\ ema_enabled = FALSE
    /\ live = TrainWeights
    /\ temp_stored_params = NoStoredParams
    /\ ema_log = <<>>
    /\ saved_files = {}
    /\ faults = 0
    /\ parsed = NoParse
    /\ flux = forward
    /\ lora_scaling = 1
    /\ attention_calls = <<>>
    /\ previous = NoSample
    /\ gathered = NoGather
    /\ benchmarks = StoredBenchmarks(a)
    /\ trace = <<>>

InitWith(a) == InitOf(a, NoForward)

\* Groups of variables, for the UNCHANGED clauses.
steps == <<tracker_step, global_step, global_resume_step>>
frame == <<attempt, local_images, prompt_idx, res_idx, vp>>
emavars == <<ema_enabled, live, temp_stored_params, ema_log>>
results == <<validation_images, eval_scores, evaluation_result, saved_files>>
transformer == <<flux, lora_scaling, attention_calls, previous>>

\* The exception `exc` leaves run_validations and reaches the training loop.
Raise(exc) ==
    /\ pc' = "aborted"
    /\ call' = [call EXCEPT !.outcome = "raised", !.exception = exc]

\* run_validations returns self: its frame, and those of the functions it
\* called, are gone, and so is the record of the cycle in progress.
Return ==
    /\ pc' = "idle"
    /\ call' = [call EXCEPT !.outcome = "returned"]
    /\ attempt' = 0
    /\ local_images' = <<>>
    /\ prompt_idx' = 0
    /\ res_idx' = 0
    /\ vp' = NoLocals
    /\ trace' = <<>>

\* The training loop moves on to the next global step.
Train ==
    /\ pc = "idle"
    /\ tracker_step < MaxStep
    /\ tracker_step' = tracker_step + 1
    /\ UNCHANGED <<transformer, gathered, benchmarks, parsed, args, global_step, global_resume_step, pc, call, guard,
                   pipeline, vae, multiplier, frame, results, emavars, faults,
                   trace>>

\* The early returns of run_validations, in the order the code tests them.
ReturnsOnlyOnSkip(sv, force, skip) == sv /\ skip
ReturnsUnlessForced(sv, force, skip) == (~sv \/ skip) /\ ~force
ReturnsEarly(sv, force, skip) == (~sv /\ ~force) \/ (sv /\ skip)

\* `if self.accelerator.is_main_process or self.deepspeed` of run_validations.
RunsOnEveryProcess(a) == TRUE
RunsOnThisProcess(a) == a.is_main_process \/ a.deepspeed

\* run_validations up to the call of setup_pipeline.
run_validations(step, validation_type, force_evaluation, skip_execution) ==
    /\ pc = "idle"
    /\ call.n < MaxCalls
    /\ global_step' = tracker_step
    /\ global_resume_step' = ResumeStepOrOne(args)
    /\ LET spv == should_perform_validation(args, tracker_step,
                      ResumeStepOrOne(args), step, validation_type)
           sv == spv.value \/ (step = 0 /\ validation_type = "base_model")
           g == [evaluated |-> TRUE, step |-> step,
                 validation_type |-> validation_type,
                 force_evaluation |-> force_evaluation,
                 skip_execution |-> skip_execution,
                 should_validate |-> sv]
       IN  IF spv.raised
           THEN /\ pc' = "aborted"
                /\ guard' = [g EXCEPT !.should_validate = FALSE]
                /\ call' = [n |-> call.n + 1, outcome |-> "raised",
                            exception |-> "AttributeError"]
           ELSE IF ReturnsEarly(sv, force_evaluation, skip_execution)
                   \/ ~RunsOnThisProcess(args)
           THEN /\ pc' = "idle"
                /\ guard' = g
                /\ call' = [n |-> call.n + 1, outcome |-> "returned",
                            exception |-> None]
           ELSE /\ pc' = "setup_pipeline"
                /\ guard' = g
                /\ call' = [n |-> call.n + 1, outcome |-> "running",
                            exception |-> None]
    /\ UNCHANGED <<transformer, gathered, benchmarks, parsed, args, tracker_step, pipeline, vae, multiplier, frame,
                   results, emavars, faults, trace>>

\* ------------------------------------------------------ the pipeline
ModelFamilies ==
    {"sdxl", "flux", "kolors", "legacy", "sd3", "pixart_sigma", "smoldit", "sana"}

\* _pipeline_cls: the pipeline class of the family, or the exception raised.
\* Each branch tests controlnet before validation_using_datasets; legacy,
\* smoldit and sana look at neither.
PipelineClass(c) == [raised |-> FALSE, exception |-> None, cls |-> c]
PipelineClassRaises(exc) == [raised |-> TRUE, exception |-> exc, cls |-> None]
PipelineClassOfFamilyAlone(a) ==
    IF a.model_family \in ModelFamilies
    THEN PipelineClass(a.model_family)
    ELSE PipelineClassRaises("NotImplementedError")
_pipeline_cls(a) ==
    IF a.model_family \notin ModelFamilies
    THEN PipelineClassRaises("NotImplementedError")
    ELSE IF a.model_family = "legacy"
    THEN PipelineClass(IF deepfloyd_stage2(a) THEN "super_resolution"
                       ELSE "legacy")
    ELSE IF a.model_family \in {"smoldit", "sana"}
    THEN PipelineClass(a.model_family)
    ELSE IF a.controlnet
    THEN IF a.model_family \in {"flux", "kolors"}
         THEN PipelineClassRaises("NotImplementedError")
         ELSE IF a.model_family \in {"sd3", "pixart_sigma"}
         THEN PipelineClassRaises("Exception")
         ELSE PipelineClass("controlnet")
    ELSE IF a.validation_using_datasets
    THEN IF a.model_family = "flux"
         THEN PipelineClassRaises("NotImplementedError")
         ELSE IF a.model_family = "pixart_sigma"
         THEN PipelineClassRaises("Exception")
         ELSE PipelineClass("img2img")
    ELSE PipelineClass(a.model_family)

\* setup_pipeline up to the retry loop: the LyCORIS strength, the pipeline
\* class, the VAE.  The arguments the guard was evaluated on are dead by now.
setup_pipeline ==
    /\ pc = "setup_pipeline"
    /\ guard' = NoGuard
    /\ multiplier' = IF HasLycoris(args) THEN args.validation_lycoris_strength
                     ELSE multiplier
    /\ trace' = Append(trace, Ev("setup_pipeline", 0, 0, ""))
    /\ IF ~pipeline.built
       THEN IF _pipeline_cls(args).raised
            THEN /\ Raise(_pipeline_cls(args).exception)
                 /\ UNCHANGED <<vae, attempt>>
            ELSE /\ vae' = "loaded"
                 /\ attempt' = 0
                 /\ pc' = "construct"
                 /\ call' = call
       ELSE /\ pc' = "pipeline_to_device"
            /\ UNCHANGED <<vae, attempt, call>>
    /\ UNCHANGED <<transformer, gathered, benchmarks, parsed, args, steps, pipeline, local_images, prompt_idx, res_idx,
                   vp, results, emavars, faults>>

\* `while attempt < 3`
RetryConditionInclusive(n) == n <= MaxAttempts
RetryCondition(n) == n < MaxAttempts

\* One iteration of the retry loop of setup_pipeline: the construction either
\* succeeds (break) or raises (logged, continue).
construct_pipeline(ok) ==
    /\ pc = "construct"
    /\ RetryCondition(attempt)
    /\ attempt' = attempt + 1
    /\ trace' = Append(trace, Ev("construct", attempt + 1, 0,
                                  IF ok THEN "ok" ELSE "raised"))
    /\ IF ok
       THEN /\ pipeline' = [built |-> TRUE, scheduler |-> "pretrained",
                            replaced |-> FALSE]
            /\ pc' = "pipeline_to_device"
       ELSE /\ pipeline' = pipeline
            /\ pc' = IF RetryCondition(attempt + 1) THEN "construct"
                     ELSE "pipeline_to_device"
    /\ UNCHANGED <<transformer, gathered, benchmarks, parsed, args, steps, call, guard, vae, multiplier, local_images,
                   prompt_idx, res_idx, vp, results, emavars, faults>>

\* `self.pipeline = self.pipeline.to(self.inference_device)` raises on None.
ToDeviceRaises(p) == ~p.built

\* The end of setup_pipeline, and run_validations' test of the result.
pipeline_to_device ==
    /\ pc = "pipeline_to_device"
    /\ IF ToDeviceRaises(pipeline)
       THEN /\ Raise("AttributeError")
            /\ UNCHANGED <<validation_images, frame, trace>>
       ELSE IF ~pipeline.built
       THEN /\ validation_images' = NoImages
            /\ Return
       ELSE /\ pc' = "setup_scheduler"
            /\ UNCHANGED <<call, validation_images, frame, trace>>
    /\ UNCHANGED <<transformer, gathered, benchmarks, parsed, args, steps, guard, pipeline, vae, multiplier, eval_scores,
                   evaluation_result, saved_files, emavars, faults>>

\* The early return of setup_scheduler: flow-matching families but Sana.
KeepsSchedulerOfFlux(a) == a.model_family = "flux"
KeepsScheduler(a) == flow_matching(a) /\ a.model_family # "sana"

\* `if self.pipeline is not None: self.pipeline.scheduler = scheduler`
DiscardsScheduler(p) == FALSE
AssignsScheduler(p) == p.built

\* setup_scheduler, called by run_validations on the built pipeline: Sana and
\* DeepFloyd overwrite the configured scheduler name; no name, no change.
setup_scheduler ==
    /\ pc = "setup_scheduler"
    /\ LET a1 == IF args.model_family = "sana"
                 THEN [args EXCEPT !.validation_noise_scheduler = "sana"]
                 ELSE args
           a2 == IF deepfloyd(a1)
                 THEN [a1 EXCEPT !.validation_noise_scheduler = "ddpm"]
                 ELSE a1
       IN  IF KeepsScheduler(args)
           THEN UNCHANGED <<args, pipeline>>
           ELSE IF a1.validation_noise_scheduler = None
           THEN /\ args' = a1
                /\ pipeline' = pipeline
           ELSE /\ args' = a2
                /\ pipeline' = IF AssignsScheduler(pipeline)
                               THEN [pipeline EXCEPT
                                       !.scheduler = a2.validation_noise_scheduler,
                                       !.replaced = TRUE]
                               ELSE pipeline
    /\ trace' = Append(trace, Ev("setup_scheduler", 0, 0, ""))
    /\ pc' = "process_prompts"
    /\ UNCHANGED <<transformer, gathered, benchmarks, parsed, steps, call, guard, vae, multiplier, frame, results,
                   emavars, faults>>

\* ------------------------------------------------------ generation
\* _validation_types: the generation passes of one prompt and resolution.
_validation_types(a) ==
    IF a.use_ema
    THEN IF a.ema_validation = "comparison" THEN <<"checkpoint", "ema">>
         ELSE IF a.ema_validation = "ema_only" THEN <<"ema">>
         ELSE <<"checkpoint">>
    ELSE <<"checkpoint">>

\* Which weights a pipeline invocation samples from.
WeightsTag(l) == IF l = TrainWeights THEN "train" ELSE "ema"

\* `x or y` on an optional integer: None and 0 are both falsy.
Truthy(x) == x.set /\ x.n # 0

\* _validation_seed_source raises on a source that is neither cpu nor gpu.
SeedSourceRaises(a) == a.validation_seed_source \notin {"cpu", "gpu"}

\* `self.args.validation_seed or self.args.seed or 0`
SeedPrefersTrainingSeed(a) ==
    IF Truthy(a.seed) THEN a.seed.n
    ELSE IF Truthy(a.validation_seed) THEN a.validation_seed.n
    ELSE 0
ManualSeed(a) ==
    IF Truthy(a.validation_seed) THEN a.validation_seed.n
    ELSE IF Truthy(a.seed) THEN a.seed.n
    ELSE 0

\* _get_generator: a new torch.Generator, seeded; with validation_randomize
\* the pipeline is given none.
_get_generator(a) == [given |-> TRUE, seed |-> ManualSeed(a)]
GeneratorRaises(a) == ~a.validation_randomize /\ SeedSourceRaises(a)
GeneratorKwarg(a) ==
    IF a.validation_randomize THEN [given |-> FALSE, seed |-> 0]
    ELSE _get_generator(a)

\* self.pipeline(**pipeline_kwargs).images: num_validation_images images.
PipelineImages(a, p, r, t, l) ==
    [k \in 1..a.num_validation_images |->
        [p |-> p, r |-> r, t |-> t, k |-> k, w |-> WeightsTag(l),
         generator |-> GeneratorKwarg(a), stitch |-> ""]]

NoPassResults ==
    [has_checkpoint |-> FALSE, checkpoint |-> <<>>,
     has_ema |-> FALSE, ema |-> <<>>]

\* The EMA pass of validate_prompt swaps back after the pipeline call; the
\* call raising skips the swap-back (the except clause only logs).
AfterEmaPass(a, e, raised) ==
    IF raised THEN e ELSE disable_ema_for_inference(a, e)

\* The loop over validation_types of validate_prompt from pass i on:
\* [e, results, events, raised].  `fault` names the pass whose pipeline
\* invocation raises ("" for none).
RECURSIVE RunPasses(_, _, _, _, _, _, _)
RunPasses(a, p, r, fault, i, e, acc) ==
    LET types == _validation_types(a) IN
    IF i > Len(types) THEN acc
    ELSE LET t == types[i]
             e1 == IF t = "ema" THEN enable_ema_for_inference(a, e) ELSE e
             imgs == PipelineImages(a, p, r, t, e1.live)
             ev == Ev("generate", p, r, t)
             e2 == IF t = "ema" THEN AfterEmaPass(a, e1, fault = t) ELSE e1
         IN  IF GeneratorRaises(a)
             THEN [acc EXCEPT !.raised = TRUE,
                              !.events = Append(acc.events,
                                                Ev("generator_raised", p, r, t))]
             ELSE IF fault = t
             THEN [acc EXCEPT !.e = e2, !.raised = TRUE,
                              !.events = Append(acc.events,
                                                Ev("generate_raised", p, r, t))]
             ELSE RunPasses(a, p, r, fault, i + 1, e2,
                     [acc EXCEPT
                        !.e = e2,
                        !.events = Append(acc.events,
                                          [ev EXCEPT !.ev = IF e1.live = TrainWeights
                                                            THEN "generate_train"
                                                            ELSE "generate_ema"]),
                        !.results = IF t = "ema"
                                    THEN [acc.results EXCEPT !.has_ema = TRUE,
                                                             !.ema = imgs]
                                    ELSE [acc.results EXCEPT !.has_checkpoint = TRUE,
                                                             !.checkpoint = imgs]])

\* stitch_benchmark_image
StitchBenchmark(img) == [img EXCEPT !.stitch = "benchmark"]
StitchAll(imgs) == [i \in 1..Len(imgs) |-> StitchBenchmark(imgs[i])]

\* stitch_conditioning_images builds a new list of new images.
StitchConditioning(imgs) ==
    [i \in 1..Len(imgs) |-> [imgs[i] EXCEPT !.stitch = "conditioning"]]

\* Lines 1427-1463 of validate_prompt: pick the results to report, stitch the
\* benchmark into them (in place: the list reported is the list kept as the
\* un-stitched original) and extend the three per-prompt lists.  The extend of
\* the EMA list raises on None, after the other two lists were extended.
CollectResults(a, b, p, r, locals, res) ==
    LET validation_image_results ==
            IF res.has_checkpoint THEN res.checkpoint ELSE res.ema
        consult == ~a.controlnet /\ ~a.disable_benchmark /\ benchmark_exists(b)
        benchmark_image == IF consult
                           THEN _benchmark_image(b, p, Resolution(a, r))
                           ELSE None
        reported == IF a.controlnet
                    THEN StitchConditioning(validation_image_results)
                    ELSE IF benchmark_image # None
                    THEN StitchAll(validation_image_results)
                    ELSE validation_image_results
        original == IF a.controlnet THEN validation_image_results
                    ELSE reported
        ema_list == IF res.has_checkpoint
                    THEN res.ema
                    ELSE reported
    IN  [locals EXCEPT
            !.benchmark_image = benchmark_image,
            !.checkpoint = locals.checkpoint \o original,
            !.stitched = locals.stitched \o reported,
            !.ema = IF a.use_ema /\ res.has_ema
                    THEN locals.ema \o ema_list
                    ELSE locals.ema]

Faults == {"", "embed", "checkpoint", "ema"}

\* A fault the configuration can produce: the pass it names is one that runs.
FaultApplies(a, fault) ==
    \/ fault \in {"", "embed"}
    \/ \E i \in 1..Len(_validation_types(a)) : _validation_types(a)[i] = fault

\* process_prompts up to its loop: the per-cycle state is reset.
process_prompts ==
    /\ pc = "process_prompts"
    /\ evaluation_result' = NoResult
    /\ local_images' = <<>>
    /\ eval_scores' = <<>>
    /\ prompt_idx' = 1
    /\ pc' = IF args.nprompts >= 1 THEN "validate_prompt" ELSE "log_trackers"
    /\ UNCHANGED <<transformer, gathered, benchmarks, parsed, args, steps, call, guard, pipeline, vae, multiplier,
                   attempt, res_idx, vp, validation_images, saved_files,
                   emavars, faults, trace>>

\* validate_prompt up to its loop over the resolutions.
validate_prompt ==
    /\ pc = "validate_prompt"
    /\ vp' = NoLocals
    /\ res_idx' = 1
    /\ pc' = "resolution"
    /\ UNCHANGED <<transformer, gathered, benchmarks, parsed, args, steps, call, guard, pipeline, vae, multiplier,
                   attempt, local_images, prompt_idx, results, emavars,
                   faults, trace>>

\* One iteration of the loop over self.validation_resolutions in
\* validate_prompt: gather the embeds, run the passes, collect the results.
\* Both try blocks log the exception and continue with the next resolution.
validate_resolution(fault) ==
    /\ pc = "resolution"
    /\ FaultApplies(args, fault)
    /\ fault # "" => faults < MaxFaults
    /\ faults' = IF fault # "" THEN faults + 1 ELSE faults
    /\ LET run == RunPasses(args, prompt_idx, res_idx, fault, 1, EmaState,
                            [e |-> EmaState, results |-> NoPassResults,
                             events |-> <<>>, raised |-> FALSE])
       IN  IF fault = "embed"
           THEN /\ trace' = Append(trace, Ev("embed_raised", prompt_idx, res_idx, ""))
                /\ UNCHANGED <<vp, emavars, multiplier>>
           ELSE /\ trace' = trace \o run.events
                /\ ema_enabled' = run.e.ema_enabled
                /\ live' = run.e.live
                /\ temp_stored_params' = run.e.temp
                /\ ema_log' = run.e.log
                /\ multiplier' = run.e.mult
                /\ vp' = IF run.raised THEN vp
                         ELSE CollectResults(args, benchmarks, prompt_idx, res_idx, vp,
                                             run.results)
    /\ res_idx' = res_idx + 1
    /\ pc' = IF res_idx < args.nres THEN "resolution" ELSE "prompt_done"
    /\ UNCHANGED <<transformer, gathered, benchmarks, parsed, args, steps, call, guard, pipeline, vae, attempt,
                   local_images, prompt_idx, results>>

\* ------------------------------------------- saving, scoring, reporting
DictSet(d, k, v) == [x \in (DOMAIN d) \cup {k} |-> IF x = k THEN v ELSE d[x]]
Values(d) == {d[x] : x \in DOMAIN d}

RECURSIVE SumOver(_, _)
SumOver(d, D) == IF D = {} THEN 0
                 ELSE LET x == CHOOSE y \in D : TRUE
                      IN  d[x] + SumOver(d, D \ {x})
SumValues(d) == SumOver(d, DOMAIN d)

\* The scores the evaluator may return.
Scores == {1, 2}

\* Lines 1472-1490 of validate_prompt: with EMA comparison and a benchmark
\* image, every reported image is stitched with its EMA counterpart.  A
\* benchmark_image never assigned is an UnboundLocalError.
BenchmarkIsRead(a) == a.use_ema /\ a.ema_validation = "comparison"
FinishRaises(a, locals) ==
    BenchmarkIsRead(a) /\ locals.benchmark_image = "unbound"
FinishPrompt(a, locals) ==
    IF BenchmarkIsRead(a) /\ locals.benchmark_image # None
    THEN [locals EXCEPT !.stitched =
            [i \in 1..Len(locals.stitched) |->
                [locals.stitched[i] EXCEPT !.stitch = "ema_comparison"]]]
    ELSE locals

\* _save_images: the i-th image of the shortname is labelled with the i-th
\* configured resolution; an index past the list is an IndexError.
SaveRaises(a, imgs) == Len(imgs) > a.nres
SavedBy(a, step, p, imgs) ==
    {[step |-> step, shortname |-> p, res |-> i, image |-> imgs[i]] :
        i \in 1..Min(Len(imgs), a.nres)}
SaveEvents(a, p, imgs) ==
    [i \in 1..Min(Len(imgs), a.nres) |-> Ev("save", p, i, "")]
_save_images(a, files, step, p, imgs) ==
    LET new == SavedBy(a, step, p, imgs)
        Overwritten(f) == \E g \in new : /\ g.step = f.step
                                          /\ g.shortname = f.shortname
                                          /\ g.res = f.res
    IN  {f \in files : ~Overwritten(f)} \cup new

\* evaluate_images: a shortname not scored yet takes the score of its last
\* image; the result is taken over every score of the cycle, and min() of no
\* score at all is a ValueError.
ScoresAfter(scores, p, imgs, score) ==
    IF p \in DOMAIN scores \/ Len(imgs) = 0 THEN scores
    ELSE DictSet(scores, p, score)
EvaluateRaises(a, scores) == a.model_evaluator /\ DOMAIN scores = {}
evaluate_images(a, scores) ==
    IF ~a.model_evaluator THEN NoResult
    ELSE LET vals == Values(scores)
         IN  [set |-> TRUE,
              min |-> CHOOSE v \in vals : \A u \in vals : v <= u,
              max |-> CHOOSE v \in vals : \A u \in vals : v >= u,
              sum |-> SumValues(scores),
              n |-> Cardinality(DOMAIN scores)]

\* The end of validate_prompt and the rest of the loop body of
\* process_prompts: update, _save_images, self.validation_images,
\* evaluate_images.
finish_prompt(score) ==
    /\ pc = "prompt_done"
    /\ LET p == prompt_idx
           locals == FinishPrompt(args, vp)
           images == DictSet(local_images, p, locals.stitched)
           scores == IF args.model_evaluator
                     THEN ScoresAfter(eval_scores, p, locals.checkpoint, score)
                     ELSE eval_scores
       IN  IF FinishRaises(args, vp)
           THEN /\ Raise("UnboundLocalError")
                /\ UNCHANGED <<vp, local_images, results, trace, prompt_idx>>
           ELSE IF SaveRaises(args, locals.stitched)
           THEN /\ Raise("IndexError")
                /\ vp' = locals
                /\ local_images' = images
                /\ saved_files' = _save_images(args, saved_files, tracker_step,
                                               p, locals.stitched)
                /\ trace' = trace \o SaveEvents(args, p, locals.stitched)
                /\ UNCHANGED <<validation_images, eval_scores,
                               evaluation_result, prompt_idx>>
           ELSE /\ vp' = locals
                /\ local_images' = images
                /\ saved_files' = _save_images(args, saved_files, tracker_step,
                                               p, locals.stitched)
                /\ validation_images' = [set |-> TRUE, images |-> images]
                /\ eval_scores' = scores
                /\ IF EvaluateRaises(args, scores)
                   THEN /\ Raise("ValueError")
                        /\ trace' = trace \o SaveEvents(args, p, locals.stitched)
                        /\ UNCHANGED <<evaluation_result, prompt_idx>>
                   ELSE /\ evaluation_result' = evaluate_images(args, scores)
                        /\ trace' = (trace \o SaveEvents(args, p, locals.stitched))
                                    \o (IF args.model_evaluator
                                        THEN <<Ev("score", p, 0, "")>> ELSE <<>>)
                        /\ prompt_idx' = p + 1
                        /\ pc' = IF p < args.nprompts THEN "validate_prompt"
                                 ELSE "log_trackers"
                        /\ call' = call
    /\ UNCHANGED <<transformer, gathered, benchmarks, parsed, args, steps, guard, pipeline, vae, multiplier, attempt,
                   res_idx, emavars, faults>>

\* The end of process_prompts: tracker reporting, whose exception is logged.
log_validations_to_trackers(ok) ==
    /\ pc = "log_trackers"
    /\ ~ok => faults < MaxFaults
    /\ faults' = IF ok THEN faults ELSE faults + 1
    /\ trace' = Append(trace, Ev("log_trackers", 0, 0,
                                  IF ok THEN "ok" ELSE "raised"))
    /\ pc' = "finalize"
    /\ UNCHANGED <<transformer, gathered, benchmarks, parsed, args, steps, call, guard, pipeline, vae, multiplier, frame,
                   results, emavars>>

\* `if not self.args.keep_vae_loaded and not self.args.vae_cache_ondemand`
ReleasesVaeUnlessKeptLoaded(a) == ~a.keep_vae_loaded
ReleasesVae(a) == ~a.keep_vae_loaded /\ ~a.vae_cache_ondemand

\* finalize_validation: release the VAE unless it is kept, drop the pipeline.
finalize_validation ==
    /\ pc = "finalize"
    /\ IF ReleasesVae(args) /\ vae = None
       THEN /\ Raise("AttributeError")
            /\ UNCHANGED <<vae, pipeline, trace>>
       ELSE /\ vae' = IF ReleasesVae(args) THEN None ELSE vae
            /\ pipeline' = NoPipeline
            /\ trace' = Append(trace, Ev("finalize", 0, 0, ""))
            /\ pc' = "clean"
            /\ call' = call
    /\ UNCHANGED <<transformer, gathered, benchmarks, parsed, args, steps, guard, multiplier, frame, results, emavars,
                   faults>>

\* `if hasattr(self.accelerator, "_lycoris_wrapped_network"): ...
\* .set_multiplier(1.0)` of clean_pipeline.
LeavesMultiplier(a, m) == m
ResetMultiplier(a, m) == IF HasLycoris(a) THEN UnitMultiplier ELSE m

\* clean_pipeline, and the return of run_validations.
clean_pipeline ==
    /\ pc = "clean"
    /\ multiplier' = ResetMultiplier(args, multiplier)
    /\ pipeline' = NoPipeline
    /\ Return
    /\ UNCHANGED <<transformer, gathered, benchmarks, parsed, args, steps, guard, vae, results, emavars, faults>>

\* ------------------------------------------------------ specification
Next ==
    \/ Train
    \/ \E step \in Steps, vt \in ValidationTypes, force \in BOOLEAN,
          skip \in BOOLEAN : run_validations(step, vt, force, skip)
    \/ setup_pipeline
    \/ \E ok \in BOOLEAN : construct_pipeline(ok)
    \/ pipeline_to_device
    \/ setup_scheduler
    \/ process_prompts
    \/ validate_prompt
    \/ \E fault \in Faults : validate_resolution(fault)
    \/ \E score \in Scores : finish_prompt(score)
    \/ \E ok \in BOOLEAN : log_validations_to_trackers(ok)
    \/ finalize_validation
    \/ clean_pipeline

\* The settings of the EMA validation mode and of the adapter type.
EmaSettings ==
    {<<FALSE, "none">>, <<TRUE, "none">>, <<TRUE, "ema_only">>,
     <<TRUE, "comparison">>}
AdapterSettings ==
    {<<"full", "standard">>, <<"lora", "standard">>, <<"lora", "lycoris">>}

WithEma(a, e, m) ==
    [a EXCEPT !.use_ema = e[1], !.ema_validation = e[2],
              !.model_type = m[1], !.lora_type = m[2]]

\* Generation on the main process, every step a validation step: the EMA mode,
\* the adapter type, the evaluator and the number of resolutions vary, and so
\* do, for a full fine-tune, the images per call, the benchmark and the VAE
\* option.
GenerationArgs ==
    LET core == {[WithResolutions(WithEma(BaseArgs, e, m), n)
                     EXCEPT !.model_evaluator = ev] :
                    e \in EmaSettings, m \in AdapterSettings,
                    ev \in BOOLEAN, n \in {1, NumRes}}
        full == {a \in core : a.model_type = "full"
                               /\ a.ema_validation # "ema_only"}
    IN  core
        \cup {[a EXCEPT !.num_validation_images = 2] : a \in full}
        \cup {[a EXCEPT !.benchmark = TRUE] : a \in full}
        \cup {[a EXCEPT !.keep_vae_loaded = TRUE] : a \in full}

Init == \E a \in GenerationArgs : ConstructorAccepts(a) /\ InitWith(a)

Spec == Init /\ [][Next]_vars


\* The guard on every kind of process: the cadence, the accumulation steps,
\* the resume step, the prompt list and the process vary; one prompt, one
\* resolution.
GuardArgs ==
    {[WithResolutions(BaseArgs, 1)
         EXCEPT !.is_main_process = m, !.deepspeed = d,
                      !.validation_steps = vs,
                      !.gradient_accumulation_steps = ga,
                      !.resume_step = rs, !.nprompts = np] :
        m \in BOOLEAN, d \in BOOLEAN, vs \in {1, 2, 3}, ga \in {1, 2},
        rs \in {0, 1, 2}, np \in {0, 1}}

InitGuard == \E a \in GuardArgs : ConstructorAccepts(a) /\ InitWith(a)

SpecGuard == InitGuard /\ [][Next]_vars

\* Pipeline selection, scheduler setup and clean-up: one prompt and one
\* resolution; the model family (one of them unknown to _pipeline_cls), the
\* ControlNet and dataset options, the scheduler name, the flow-matching loss
\* and the two VAE options vary.
PipelineArgs ==
    LET one == [WithResolutions(BaseArgs, 1) EXCEPT !.nprompts = 1]
        families == ModelFamilies \cup {"other"}
    IN  {[one EXCEPT !.model_family = f, !.controlnet = c,
                     !.validation_using_datasets = d] :
            f \in families, c \in BOOLEAN, d \in BOOLEAN}
        \cup {[one EXCEPT !.model_family = f, !.flow_matching_loss = l,
                          !.validation_noise_scheduler = n] :
                f \in ModelFamilies, l \in {"compatible", "diffusion"},
                n \in {None, "euler"}}
        \cup {[one EXCEPT !.keep_vae_loaded = k, !.vae_cache_ondemand = o] :
                k \in BOOLEAN, o \in BOOLEAN}
        \cup {[one EXCEPT !.model_family = "legacy", !.model_type = t] :
                t \in {"deepfloyd-full", "deepfloyd-lora"}}

InitPipeline == \E a \in PipelineArgs : ConstructorAccepts(a) /\ InitWith(a)

SpecPipeline == InitPipeline /\ [][Next]_vars

\* ------------------------------- the resolution parsing on its own
\* The edges the configured resolutions are made of, the elements "N" and
\* "WxH" over them and the two a list written "512, 768x512" has after its
\* comma, and the comma-separated lists of n elements.
Edges == {255, 256, 512, 768}
ElementStrings ==
    {Str(n) : n \in Edges}
    \cup {Str(w) \o <<"x">> \o Str(h) : w \in Edges, h \in Edges}
    \cup {<<" ">> \o Str(512), <<" ">> \o Str(768) \o <<"x">> \o Str(512)}
RECURSIVE ListStrings(_)
ListStrings(n) ==
    IF n <= 1 THEN ElementStrings
    ELSE {l \o <<",">> \o e : l \in ListStrings(n - 1), e \in ElementStrings}
ResolutionParameters ==
    {PyInt(n) : n \in Edges}
    \cup {PyStr(s) : s \in UNION {ListStrings(k) : k \in 1..MaxElements}}

\* self.validation_resolutions has one entry per element, and the single
\* entry "base-256" under DeepFloyd stage 2.
NumberOfResolutions(a, v) ==
    IF deepfloyd_stage2(a) \/ v.type = "int" THEN 1
    ELSE Len(Split(v.s, ","))

ParseArgs ==
    {[BaseArgs EXCEPT !.model_type = t, !.validation_resolution = v,
                      !.nres = NumberOfResolutions([BaseArgs EXCEPT !.model_type = t], v)] :
        t \in {"full", "deepfloyd-lora", "deepfloyd-stage2-lora"},
        v \in ResolutionParameters}

\* The inputs get_validation_resolutions hands to parse_validation_resolution.
ConfiguredElements(a) ==
    IF a.validation_resolution.type = "int" THEN {a.validation_resolution}
    ELSE LET pieces == Split(a.validation_resolution.s, ",")
         IN  {PyStr(pieces[i]) : i \in DOMAIN pieces}

\* A call of get_validation_resolutions().
GetResolutionsCall ==
    /\ pc = "idle"
    /\ LET r == get_validation_resolutions(args)
       IN  parsed' = [op |-> "get", input |-> args.validation_resolution,
                      raised |-> r.raised, value |-> r.value]
    /\ UNCHANGED <<args, steps, pc, call, guard, pipeline, vae, multiplier,
                   frame, results, emavars, faults, transformer, gathered,
                   benchmarks, trace>>

\* A call of parse_validation_resolution(input_str).
ParseResolutionCall(input_str) ==
    /\ pc = "idle"
    /\ LET r == parse_validation_resolution(args, input_str)
       IN  parsed' = [op |-> "parse", input |-> input_str,
                      raised |-> r.raised,
                      value |-> IF r.raised THEN <<>> ELSE <<r>>]
    /\ UNCHANGED <<args, steps, pc, call, guard, pipeline, vae, multiplier,
                   frame, results, emavars, faults, transformer, gathered,
                   benchmarks, trace>>

NextParse ==
    \/ GetResolutionsCall
    \/ \E input_str \in ConfiguredElements(args) : ParseResolutionCall(input_str)

InitParse == \E a \in ParseArgs : InitWith(a)

SpecParse == InitParse /\ [][NextParse]_vars

\* ------------------------------------- the EMA operations on their own
\* enable_ema_for_inference and disable_ema_for_inference called in any order.
WriteEmaState(e) ==
    /\ ema_enabled' = e.ema_enabled
    /\ live' = e.live
    /\ temp_stored_params' = e.temp
    /\ ema_log' = e.log
    /\ multiplier' = e.mult

EnableCall ==
    /\ call.n < MaxEmaCalls
    /\ call' = [call EXCEPT !.n = call.n + 1]
    /\ WriteEmaState(enable_ema_for_inference(args, EmaState))
    /\ UNCHANGED <<transformer, gathered, benchmarks, parsed, args, steps, pc, guard, pipeline, vae, frame, results,
                   faults, trace>>

DisableCall ==
    /\ call.n < MaxEmaCalls
    /\ call' = [call EXCEPT !.n = call.n + 1]
    /\ WriteEmaState(disable_ema_for_inference(args, EmaState))
    /\ UNCHANGED <<transformer, gathered, benchmarks, parsed, args, steps, pc, guard, pipeline, vae, frame, results,
                   faults, trace>>

NextEma == EnableCall \/ DisableCall

EmaArgs == {WithEma(BaseArgs, e, m) : e \in EmaSettings, m \in AdapterSettings}

InitEma == \E a \in EmaArgs : InitWith(a)

SpecEma == InitEma /\ [][NextEma]_vars


\* ------------------------------------ the transformer's forward pass
\* joint_attention_kwargs.copy() and .pop("scale", 1.0), lines 538-542: the
\* scale taken, the local dictionary, and the caller's dictionary afterwards.
PopsFromCallersDict(joint_attention_kwargs) ==
    IF joint_attention_kwargs.set
    THEN [lora_scale |-> IF joint_attention_kwargs.has_scale
                         THEN joint_attention_kwargs.scale ELSE 1,
          kwargs |-> Kwargs(FALSE, 0),
          caller |-> Kwargs(FALSE, 0)]
    ELSE [lora_scale |-> 1, kwargs |-> NoKwargs, caller |-> joint_attention_kwargs]
TakeScale(joint_attention_kwargs) ==
    IF joint_attention_kwargs.set
    THEN [lora_scale |-> IF joint_attention_kwargs.has_scale
                         THEN joint_attention_kwargs.scale ELSE 1,
          kwargs |-> Kwargs(FALSE, 0),
          caller |-> joint_attention_kwargs]
    ELSE [lora_scale |-> 1, kwargs |-> NoKwargs, caller |-> joint_attention_kwargs]

\* scale_lora_layers(self, lora_scale) and unscale_lora_layers(self, lora_scale)
\* under USE_PEFT_BACKEND: every adapter layer's scaling is multiplied by the
\* weight, and divided by it again.
scale_lora_layers(scaling, weight) == scaling * weight
unscale_lora_layers(scaling, weight) == scaling \div weight

\* The sequences forward and the blocks build from the two streams.
JointSequence(text, image) == TextFirst(text, image)
MaskedSequence(text, image) == TextFirst(text, image)
PositionIdsImageFirst(txt_ids, img_ids) == img_ids \o txt_ids
PositionIds(txt_ids, img_ids) == TextFirst(txt_ids, img_ids)
MergedStream(text, image) == TextFirst(text, image)

\* `hidden_states[:, encoder_hidden_states.shape[1] :, ...]`, line 664.
KeepsTextPrefix(hidden_states, text_len) ==
    SubSeq(hidden_states, 1, Len(hidden_states) - text_len)
SliceTextPrefix(hidden_states, text_len) ==
    SubSeq(hidden_states, text_len + 1, Len(hidden_states))

\* The mask a block hands to its attention: None stays None.
BlockDropsMask(bsz, seq_len, attention_mask) == NoMask
BlockMask(bsz, seq_len, attention_mask) ==
    IF attention_mask.set
    THEN expand_flux_attention_mask(bsz, seq_len, attention_mask)
    ELSE attention_mask
BlockRaises(bsz, seq_len, attention_mask) ==
    attention_mask.set /\ ExpandRaises(bsz, seq_len, attention_mask)

\* The masks and kwargs a caller may pass.
MaskValues(n) == [1..n -> {0, 1}]
LoraScales == {2}
AttentionMasks(f) ==
    {NoMask} \cup {Mask(b, "float", v) : b \in {f.bsz, f.bsz + 1},
                                          v \in MaskValues(f.text_len)}
JointAttentionKwargs ==
    {NoKwargs, Kwargs(FALSE, 0)} \cup {Kwargs(TRUE, w) : w \in LoraScales}

\* The condition under which the loop over self.transformer_blocks hands
\* the block at index_block to torch.utils.checkpoint (lines 579-586), and
\* that of the loop over self.single_transformer_blocks (lines 626-633), where
\* `and` binds tighter than `or`.
DualCheckpointedWithoutInterval(f, index_block) ==
    f.training /\ f.gradient_checkpointing
DualCheckpointed(f, index_block) ==
    /\ f.training
    /\ f.gradient_checkpointing
    /\ \/ ~f.interval_set
       \/ index_block % f.gradient_checkpointing_interval = 0
SingleCheckpointedAsDual(f, index_block) == DualCheckpointed(f, index_block)
SingleCheckpointed(f, index_block) ==
    \/ f.training /\ f.gradient_checkpointing
    \/ /\ f.interval_set
       /\ index_block % f.gradient_checkpointing_interval = 0

\* `for index_block, block in enumerate(...)`: another block follows.
LoopEndsAfterFirst(index_block, n) == FALSE
LoopContinues(index_block, n) == index_block + 1 < n

\* The forward pass ends with an exception: nothing after the raise runs.
ForwardRaises(exc) ==
    /\ flux' = [flux EXCEPT !.pc = "idle", !.outcome = exc]
    /\ UNCHANGED <<lora_scaling, attention_calls, previous>>

\* forward(...), lines 538-576: take the scale, scale the adapter layers,
\* embed both streams, build the rotary embedding of the position ids.
FluxForward(attention_mask, joint_attention_kwargs) ==
    /\ flux.pc = "idle"
    /\ flux.calls < MaxForwards
    /\ LET taken == TakeScale(joint_attention_kwargs)
       IN  /\ flux' = [flux EXCEPT
                  !.pc = IF flux.num_layers > 0 THEN "transformer_blocks"
                         ELSE "merge",
                  !.temb = "temb",
                  !.norm_out_emb = "",
                  !.calls = @ + 1,
                  !.attention_mask = attention_mask,
                  !.joint_attention_kwargs = taken.caller,
                  !.kwargs = taken.kwargs,
                  !.lora_scale = taken.lora_scale,
                  !.entry_scaling = lora_scaling,
                  !.hidden_states = Tokens("image", flux.image_len),
                  !.encoder_hidden_states = Tokens("text", flux.text_len),
                  !.image_rotary_emb =
                      PositionIds(Origins(Tokens("text", flux.text_len)),
                                  Origins(Tokens("image", flux.image_len))),
                  !.index_block = 0,
                  !.outcome = "running",
                  !.sample = <<>>]
           /\ lora_scaling' = IF flux.USE_PEFT_BACKEND
                              THEN scale_lora_layers(lora_scaling, taken.lora_scale)
                              ELSE lora_scaling
    /\ attention_calls' = <<>>
    /\ previous' = IF flux.outcome = "returned"
                   THEN [set |-> TRUE, attention_mask |-> flux.attention_mask,
                         kwargs |-> flux.joint_attention_kwargs,
                         sample |-> flux.sample]
                   ELSE previous
    /\ UNCHANGED <<args, steps, pc, call, guard, pipeline, vae, multiplier,
                   frame, results, emavars, faults, parsed, gathered,
                   benchmarks, trace>>

\* FluxTransformerBlock.forward (338-398) with the joint attention of
\* FluxAttnProcessor2_0.__call__ (65-166): one dual-stream block.
FluxTransformerBlock ==
    /\ flux.pc = "transformer_blocks"
    /\ LET text == flux.encoder_hidden_states
           image == flux.hidden_states
           seq_len == Len(MaskedSequence(text, image))
       IN  IF BlockRaises(flux.bsz, seq_len, flux.attention_mask)
           THEN ForwardRaises("AssertionError")
           ELSE
           LET mask == BlockMask(flux.bsz, seq_len, flux.attention_mask)
               c == AttentionCall(<<"dual", flux.index_block>>,
                                  JointSequence(text, image),
                                  MaskedSequence(text, image),
                                  flux.image_rotary_emb, mask, lora_scaling)
               out == [q \in 1..Len(c.keys) |-> AttentionOutput(c, q)]
               \* the processor returns (hidden_states, encoder_hidden_states)
               attn_output == ImagePart(out, Len(text))
               context_attn_output == TextPart(out, Len(text))
           IN  IF AddRaises(image, attn_output) \/ AddRaises(text, context_attn_output)
               THEN ForwardRaises("RuntimeError")
               ELSE
               /\ flux' = [flux EXCEPT
                      !.encoder_hidden_states = Add(text, context_attn_output),
                      !.hidden_states = Add(image, attn_output),
                      !.index_block = @ + 1,
                      !.pc = IF LoopContinues(flux.index_block, flux.num_layers)
                             THEN "transformer_blocks" ELSE "merge"]
               /\ attention_calls' =
                      Append(attention_calls,
                             [c EXCEPT !.checkpointed =
                                           DualCheckpointed(flux, flux.index_block),
                                       !.temb = flux.temb,
                                       !.given_mask = flux.attention_mask])
               /\ UNCHANGED <<lora_scaling, previous>>
    /\ UNCHANGED <<args, steps, pc, call, guard, pipeline, vae, multiplier,
                   frame, results, emavars, faults, parsed, gathered,
                   benchmarks, trace>>

\* Line 623: the text stream is placed in front of the image stream.
MergeStreams ==
    /\ flux.pc = "merge"
    /\ flux' = [flux EXCEPT
           !.hidden_states = MergedStream(flux.encoder_hidden_states,
                                          flux.hidden_states),
           !.index_block = 0,
           !.pc = IF flux.num_single_layers > 0 THEN "single_transformer_blocks"
                  ELSE "output"]
    /\ UNCHANGED <<lora_scaling, attention_calls, previous>>
    /\ UNCHANGED <<args, steps, pc, call, guard, pipeline, vae, multiplier,
                   frame, results, emavars, faults, parsed, gathered,
                   benchmarks, trace>>

\* FluxSingleTransformerBlock.forward (239-267): one merged-stream block.
FluxSingleTransformerBlock ==
    /\ flux.pc = "single_transformer_blocks"
    /\ LET residual == flux.hidden_states
       IN  IF BlockRaises(flux.bsz, Len(residual), flux.attention_mask)
           THEN ForwardRaises("AssertionError")
           ELSE
           LET mask == BlockMask(flux.bsz, Len(residual), flux.attention_mask)
               c == AttentionCall(<<"single", flux.index_block>>, residual,
                                  residual,
                                  flux.image_rotary_emb, mask, lora_scaling)
               attn_output == [q \in 1..Len(c.keys) |-> AttentionOutput(c, q)]
           IN  /\ flux' = [flux EXCEPT
                      !.hidden_states = Add(residual, attn_output),
                      !.index_block = @ + 1,
                      !.pc = IF LoopContinues(flux.index_block,
                                              flux.num_single_layers)
                             THEN "single_transformer_blocks" ELSE "output"]
               /\ attention_calls' =
                      Append(attention_calls,
                             [c EXCEPT !.checkpointed =
                                           SingleCheckpointed(flux, flux.index_block),
                                       !.temb = flux.temb,
                                       !.given_mask = flux.attention_mask])
               /\ UNCHANGED <<lora_scaling, previous>>
    /\ UNCHANGED <<args, steps, pc, call, guard, pipeline, vae, multiplier,
                   frame, results, emavars, faults, parsed, gathered,
                   benchmarks, trace>>

\* Lines 664-676: drop the text prefix, project, unscale the adapter layers,
\* return the sample.
FluxOutput ==
    /\ flux.pc = "output"
    /\ flux' = [flux EXCEPT
           !.sample = SliceTextPrefix(flux.hidden_states,
                                      Len(flux.encoder_hidden_states)),
           !.norm_out_emb = flux.temb,
           !.pc = "idle",
           !.outcome = "returned"]
    /\ lora_scaling' = IF flux.USE_PEFT_BACKEND
                       THEN unscale_lora_layers(lora_scaling, flux.lora_scale)
                       ELSE lora_scaling
    /\ UNCHANGED <<attention_calls, previous>>
    /\ UNCHANGED <<args, steps, pc, call, guard, pipeline, vae, multiplier,
                   frame, results, emavars, faults, parsed, gathered,
                   benchmarks, trace>>

NextFlux ==
    \/ \E attention_mask \in AttentionMasks(flux),
          joint_attention_kwargs \in JointAttentionKwargs :
           FluxForward(attention_mask, joint_attention_kwargs)
    \/ FluxTransformerBlock
    \/ MergeStreams
    \/ FluxSingleTransformerBlock
    \/ FluxOutput

InitFlux ==
    \E peft \in BOOLEAN, bsz \in 1..MaxBatch, text_len \in 1..MaxTextLen,
       image_len \in 1..MaxImageLen :
        InitOf(BaseArgs, ForwardOf(peft, bsz, text_len, image_len))

SpecFlux == InitFlux /\ [][NextFlux]_vars

\* The forward pass under the checkpointing options: the number of blocks of
\* each kind, training mode, _set_gradient_checkpointing and
\* set_gradient_checkpointing_interval vary; the batch is one row of one text
\* token and one image token.
CheckpointIntervals ==
    {[set |-> FALSE, value |-> 0]}
        \cup {[set |-> TRUE, value |-> k] : k \in 1..MaxInterval}
InitCheckpoint ==
    \E n \in 1..MaxLayers, m \in 1..MaxLayers, training \in BOOLEAN,
       gradient_checkpointing \in BOOLEAN, interval \in CheckpointIntervals :
        InitOf(BaseArgs,
               [ForwardOf(FALSE, 1, 1, 1) EXCEPT
                   !.num_layers = n, !.num_single_layers = m,
                   !.training = training,
                   !.gradient_checkpointing = gradient_checkpointing,
                   !.interval_set = interval.set,
                   !.gradient_checkpointing_interval = interval.value])

SpecCheckpoint == InitCheckpoint /\ [][NextFlux]_vars


\* --------------------------------- gathering the prompt embeds on its own
\* The families whose pipeline takes the attention mask of the prompt.
RequiresMask(a) ==
    \/ a.model_family \in {"pixart_sigma", "smoldit", "sana"}
    \/ a.model_family = "flux" /\ a.flux_attention_masked_training

GatherRaises(exc, bound) ==
    [raised |-> TRUE, exception |-> exc, bound |-> bound, result |-> NoEmbeds]

\* The tuple unpacking of lines 646-663.
AritiesWithPooled == {2, 3, 4}
AcceptsPair(_embed) == Len(_embed) = 2
AcceptsArity(_embed) == Len(_embed) \in AritiesWithPooled
BindEmbed(_embed) ==
    [prompt_embeds |-> _embed[1],
     pooled_embeds |-> _embed[2],
     time_ids |-> IF Len(_embed) >= 3 THEN _embed[3] ELSE NoTensor,
     prompt_mask |-> IF Len(_embed) = 4 THEN _embed[4] ELSE NoTensor]

\* Lines 732-760: the dictionary returned, with the mask when the family
\* takes one; the assert fails on a mask that is None.
FinishGather(a, bound) ==
    IF RequiresMask(a) /\ bound.prompt_mask = NoTensor
    THEN GatherRaises("AssertionError", bound)
    ELSE [raised |-> FALSE, exception |-> None, bound |-> bound,
          result |-> [prompt_embeds |-> bound.prompt_embeds,
                      pooled_prompt_embeds |-> bound.pooled_embeds,
                      has_prompt_mask |-> RequiresMask(a),
                      prompt_mask |-> IF RequiresMask(a) THEN bound.prompt_mask
                                      ELSE NoTensor]]

\* _gather_prompt_embeds(validation_prompt), for the tuple _embed the embedding
\* cache returns for the prompt.
_gather_prompt_embeds(a, _embed) ==
    IF a.model_family \in {"sdxl", "sd3", "kolors", "flux"}
    THEN IF AcceptsArity(_embed)
         THEN FinishGather(a, BindEmbed(_embed))
         ELSE GatherRaises("ValueError", NoBinding)
    ELSE IF a.model_family \in {"legacy", "pixart_sigma", "smoldit", "sana"}
    THEN IF a.model_family \in {"pixart_sigma", "smoldit", "sana"}
         THEN IF Len(_embed) # 2
              THEN GatherRaises("ValueError", NoBinding)
              ELSE FinishGather(a, [NoBinding EXCEPT
                                        !.prompt_embeds = _embed[1],
                                        !.prompt_mask = _embed[2]])
         ELSE IF Len(_embed) = 0
              THEN GatherRaises("IndexError", NoBinding)
              ELSE FinishGather(a, [NoBinding EXCEPT !.prompt_embeds = _embed[1]])
    ELSE GatherRaises("NotImplementedError", NoBinding)

\* The tuples the embedding cache may return: up to MaxArity tensors, the
\* time ids and the mask possibly None.
CacheResults ==
    UNION {{e \in [1..n -> {Tensor(i) : i \in 1..n} \cup {NoTensor}] :
               \A i \in 1..n : \/ e[i] = Tensor(i)
                               \/ e[i] = NoTensor /\ i \in {3, 4}} :
           n \in 0..MaxArity}

\* A call of _gather_prompt_embeds.
GatherPromptEmbeds(_embed) ==
    /\ pc = "idle"
    /\ LET r == _gather_prompt_embeds(args, _embed)
       IN  gathered' = [called |-> TRUE, _embed |-> _embed, raised |-> r.raised,
                        exception |-> r.exception, bound |-> r.bound,
                        result |-> r.result]
    /\ UNCHANGED <<args, steps, pc, call, guard, pipeline, vae, multiplier,
                   frame, results, emavars, faults, parsed, transformer,
                   benchmarks, trace>>

NextGather == \E _embed \in CacheResults : GatherPromptEmbeds(_embed)

GatherArgs ==
    {[BaseArgs EXCEPT !.model_family = f, !.flux_attention_masked_training = m] :
        f \in ModelFamilies \cup {"other"}, m \in BOOLEAN}

InitGather == \E a \in GatherArgs : InitWith(a)

SpecGather == InitGather /\ [][NextGather]_vars


\* ------------------------------------- validation with saved benchmarks
\* A call of save_benchmark(), which the trainer makes between validations.
SaveBenchmark ==
    /\ pc = "idle"
    /\ benchmarks' = save_benchmark(args, benchmarks, validation_images)
    /\ UNCHANGED <<args, steps, pc, call, guard, pipeline, vae, multiplier,
                   frame, results, emavars, faults, parsed, transformer,
                   gathered, trace>>

NextBenchmark == Next \/ SaveBenchmark

\* One prompt; the resolution (a multiple of the alignment or not, a single
\* edge, a list), the ControlNet and disable_benchmark options and the EMA
\* comparison vary; the run starts without a benchmark directory.
BenchmarkResolutions ==
    {[s |-> Str(512), n |-> 1],
     [s |-> Str(500), n |-> 1],
     [s |-> Str(500) \o <<",">> \o Str(768) \o <<"x">> \o Str(512), n |-> 2]}
BenchmarkArgs ==
    {[WithEma(BaseArgs, e, <<"full", "standard">>) EXCEPT
         !.nprompts = 1, !.nres = v.n, !.validation_resolution = PyStr(v.s),
         !.controlnet = c, !.disable_benchmark = d] :
        e \in {<<FALSE, "none">>, <<TRUE, "comparison">>},
        v \in BenchmarkResolutions, c \in BOOLEAN, d \in BOOLEAN}

InitBenchmark == \E a \in BenchmarkArgs : ConstructorAccepts(a) /\ InitWith(a)

SpecBenchmark == InitBenchmark /\ [][NextBenchmark]_vars

\* --------------------------------------------- the seeds on their own
\* Generation with one prompt: the validation seed and the training seed are
\* unset, zero or a number, the seed source is cpu, gpu or unknown, with and
\* without validation_randomize, with and without the EMA comparison.
OptionalSeeds(n) ==
    {[set |-> FALSE, n |-> 0], [set |-> TRUE, n |-> 0], [set |-> TRUE, n |-> n]}
SeedArgs ==
    {[WithEma(BaseArgs, e, <<"full", "standard">>) EXCEPT
         !.nprompts = 1,
         !.validation_seed = vs, !.seed = ts,
         !.validation_randomize = vr, !.validation_seed_source = src] :
        e \in {<<FALSE, "none">>, <<TRUE, "comparison">>},
        vs \in OptionalSeeds(42), ts \in OptionalSeeds(7),
        vr \in BOOLEAN, src \in {"cpu", "gpu", "mps"}}

InitSeed == \E a \in SeedArgs : ConstructorAccepts(a) /\ InitWith(a)

SpecSeed == InitSeed /\ [][Next]_vars


\* ============================================================== claims
\* The state of the Validation object that a call which does nothing leaves
\* alone: the pipeline, the scheduler choice, the VAE, the images, the scores,
\* the files, the EMA state.
ObjectState ==
    <<pipeline, args, vae, multiplier, validation_images, eval_scores,
      evaluation_result, saved_files, ema_enabled, live, temp_stored_params,
      ema_log, trace>>

\* A call of run_validations has just evaluated its guard.
GuardStep == guard'.evaluated /\ call'.n = call.n + 1

\* C1: if every pipeline construction attempt of setup_pipeline raised,
\* run_validations sets validation_images to None, does no scheduler setup or
\* generation and returns normally: the step that follows the last failed
\* attempt is that return.
C1_FailedConstructionReturns ==
    [][(pc = "pipeline_to_device" /\ ~pipeline.built)
        => (/\ pc' = "idle"
            /\ call'.outcome = "returned"
            /\ ~validation_images'.set)]_vars

\* A generation or embedding fault was raised for prompt p in this cycle.
PromptFaulted(p) ==
    \E i \in 1..Len(trace) :
        /\ trace[i].ev \in {"embed_raised", "generate_raised"}
        /\ trace[i].p = p
SavedFor(p, r) ==
    \E f \in saved_files :
        f.step = tracker_step /\ f.shortname = p /\ f.image.r = r

\* C2: a prompt whose generation or embedding lookup raises never makes the
\* cycle end with an exception, and once the loop over the prompts is over
\* every prompt that had no fault has an image saved for each resolution; in
\* every EMA mode, with and without an evaluator (one image per call).
C2_FaultyPromptIsIsolated ==
    (args.num_validation_images = 1)
    => /\ (\E p \in 1..args.nprompts : PromptFaulted(p)) => pc # "aborted"
       /\ pc = "log_trackers"
          => \A p \in 1..args.nprompts :
                ~PromptFaulted(p) => \A r \in 1..args.nres : SavedFor(p, r)

\* C3: whenever run_validations has returned, EMA is disabled and the live
\* parameters are the training weights (every enable was followed by its
\* disable, also when the pipeline invocation of the EMA pass raised).
C3_EmaOffAtReturn ==
    (pc = "idle" /\ call.outcome = "returned")
    => (~ema_enabled /\ live = TrainWeights)

EmaProtocol == <<"store", "copy_to", "restore">>
C5_StoreRestoreAlternate ==
    /\ \A i \in 1..Len(ema_log) : ema_log[i] = EmaProtocol[((i - 1) % 3) + 1]
    /\ ema_enabled <=> (Len(ema_log) % 3 = 2)
    /\ temp_stored_params.stored <=> ema_enabled
\* Four calls, one of them an enable on enabled EMA or a disable on disabled
\* EMA, and a second swap-in performed.
C5_Witness ==
    /\ args.use_ema
    /\ call.n >= 4
    /\ Len(ema_log) = 5

\* C6: no exception raised during a validation cycle leaves run_validations.
C6_NothingEscapes == pc # "aborted"

\* C7: for an intermediary validation on the main process with a non-empty
\* prompt list, should_perform_validation is true exactly when global_step is
\* a multiple of validation_steps, step a multiple of
\* gradient_accumulation_steps, and global_step greater than the resume step
\* (unset or zero counting as 1); with 100 / 1 / 1 it is true at 100 and 200
\* and false at 150.
CadenceExample ==
    [BaseArgs EXCEPT !.validation_steps = 100,
                     !.gradient_accumulation_steps = 1, !.resume_step = 1]
C7_IntermediaryCadence ==
    /\ (/\ guard.evaluated
        /\ guard.validation_type = "intermediary"
        /\ args.is_main_process
        /\ args.nprompts > 0)
       => (guard.should_validate
           <=> (/\ global_step % args.validation_steps = 0
                /\ guard.step % args.gradient_accumulation_steps = 0
                /\ global_step > (IF args.resume_step = 0 THEN 1
                                  ELSE args.resume_step)))
    /\ \A g \in {100, 200} :
          should_perform_validation(CadenceExample, g, 1, 0,
                                    "intermediary").value
    /\ ~should_perform_validation(CadenceExample, 150, 1, 0,
                                  "intermediary").value
\* Validation found due at step 2 of a cadence of 2, the resume step unset.
C7_Witness ==
    /\ guard.evaluated
    /\ guard.validation_type = "intermediary"
    /\ args.is_main_process
    /\ args.nprompts > 0
    /\ args.validation_steps = 2
    /\ args.gradient_accumulation_steps = 2
    /\ args.resume_step = 0
    /\ global_step = 2
    /\ guard.step = 0
    /\ guard.should_validate

\* C8: with validation_type "final" should_perform_validation returns true on
\* every process, at every step and for every prompt list, and does not raise.
C8_FinalAlwaysTrue ==
    (guard.evaluated /\ guard.validation_type = "final")
    => (guard.should_validate /\ call.exception # "AttributeError")

\* C9: a call on which validation is not due (and should_perform_validation
\* did not raise) and which is not forced returns at once and leaves the
\* pipeline, the scheduler, the VAE, the images, the files and the evaluation
\* state as they were.
C9_NotDueChangesNothing ==
    [][(/\ GuardStep
        /\ call'.outcome # "raised"
        /\ ~guard'.should_validate
        /\ ~guard'.force_evaluation)
       => (/\ pc' = "idle"
           /\ call'.outcome = "returned"
           /\ UNCHANGED ObjectState)]_vars
\* Such a call after a cycle that produced images.
C9_Witness ==
    /\ guard.evaluated
    /\ ~guard.should_validate
    /\ ~guard.force_evaluation
    /\ call.n = 2
    /\ call.outcome = "returned"
    /\ pc = "idle"
    /\ validation_images.set
    /\ saved_files # {}

\* C10: a call on which validation is due and skip_execution is set returns
\* at once, without constructing a pipeline or generating, also when
\* force_evaluation is set.
C10_SkipWins ==
    [][(/\ GuardStep
        /\ guard'.should_validate
        /\ guard'.skip_execution)
       => (/\ pc' = "idle"
           /\ call'.outcome = "returned"
           /\ UNCHANGED ObjectState)]_vars
C10_Witness ==
    /\ guard.evaluated
    /\ guard.should_validate
    /\ guard.skip_execution
    /\ guard.force_evaluation
    /\ call.outcome = "returned"
    /\ pc = "idle"
    /\ tracker_step >= 2


\* The phase of the validation cycle an event of the trace belongs to:
\* building_pipeline 1, scheduling_noise 2, generating 3, scoring 4,
\* reporting (files written, trackers called) 5, the clean-up 6.
PhaseOf(e) ==
    CASE e.ev \in {"setup_pipeline", "construct"} -> 1
      [] e.ev = "setup_scheduler" -> 2
      [] e.ev \in {"generate_train", "generate_ema", "generate_raised",
                   "embed_raised"} -> 3
      [] e.ev = "score" -> 4
      [] e.ev \in {"save", "log_trackers"} -> 5
      [] OTHER -> 6

\* Two events the order of the phases relates: events of the same prompt, or
\* an event of a prompt and one of the cycle as a whole.
Related(e, f) == e.p = 0 \/ f.p = 0 \/ e.p = f.p \/ e.ev = "construct"
                 \/ f.ev = "construct"

\* C11: a running validation cycle goes through building_pipeline,
\* scheduling_noise, generating, scoring and reporting in that order: of two
\* related events the earlier one never belongs to a later phase, so the
\* images of a prompt are scored after they were generated and before any of
\* them is written to disk or reported.
C11_PhasesInOrder ==
    \A i, j \in DOMAIN trace :
        (i < j /\ Related(trace[i], trace[j]))
            => PhaseOf(trace[i]) <= PhaseOf(trace[j])

IsConstruct(e) == e.ev = "construct"
ConstructEvents == SelectSeq(trace, IsConstruct)

\* C12: a call of setup_pipeline makes at most 3 construction attempts, each
\* attempt but the first follows an attempt that raised, and no attempt
\* follows one that succeeded.
C12_AtMostThreeAttempts ==
    /\ Len(ConstructEvents) <= 3
    /\ \A i \in 1..Len(ConstructEvents) :
          /\ ConstructEvents[i].p = i
          /\ i < Len(ConstructEvents) => ConstructEvents[i].t = "raised"
    /\ pc = "construct" =>
          \A i \in 1..Len(ConstructEvents) : ConstructEvents[i].t = "raised"

\* The third attempt succeeded after two that raised.
C12_Witness ==
    /\ Len(ConstructEvents) = 3
    /\ ConstructEvents[1].t = "raised"
    /\ ConstructEvents[2].t = "raised"
    /\ ConstructEvents[3].t = "ok"
    /\ pipeline.built


\* The configurations _pipeline_cls rejects: a family it does not know, a
\* ControlNet or a dataset-image validation the family has no pipeline for.
ConfigurationError(a) ==
    \/ a.model_family \notin ModelFamilies
    \/ a.controlnet /\ a.model_family \in {"flux", "kolors", "sd3", "pixart_sigma"}
    \/ a.validation_using_datasets /\ a.model_family \in {"flux", "pixart_sigma"}

\* C13: with a configuration error in the pipeline selection, setup_pipeline
\* raises before the retry loop: no construction attempt is ever made, no
\* pipeline is built, and the exception of _pipeline_cls leaves the call.
C13_ConfigurationErrorsNotRetried ==
    ConfigurationError(args) =>
        /\ ConstructEvents = <<>>
        /\ attempt = 0
        /\ ~pipeline.built
        /\ pc \in {"idle", "setup_pipeline", "aborted"}
        /\ (pc = "aborted" /\ trace # <<>>) =>
              call.exception \in {"NotImplementedError", "Exception"}

\* ControlNet validation of an SD3 model was rejected.
C13_Witness ==
    /\ args.model_family = "sd3"
    /\ args.controlnet
    /\ pc = "aborted"
    /\ call.exception = "Exception"
    /\ trace = <<Ev("setup_pipeline", 0, 0, "")>>


\* setup_scheduler has just run.
SchedulerStep == pc = "setup_scheduler" /\ pc' = "process_prompts"

\* C15: for a flow-matching family (flux, or sd3 with a flow-matching loss
\* other than "diffusion") setup_scheduler leaves the scheduler of the
\* pipeline and the configured validation_noise_scheduler as they were.
C15_FlowMatchingSchedulerUntouched ==
    [][(SchedulerStep
        /\ (args.model_family = "flux"
            \/ (args.model_family = "sd3"
                /\ args.flow_matching_loss # "diffusion")))
       => (/\ pipeline' = pipeline
           /\ args'.validation_noise_scheduler = args.validation_noise_scheduler)]_vars

\* The prompts of an SD3 flow-matching model are about to be processed on the
\* scheduler the pipeline was built with.
C15_Witness ==
    /\ pc = "process_prompts"
    /\ args.model_family = "sd3"
    /\ args.flow_matching_loss = "compatible"
    /\ args.validation_noise_scheduler = "euler"
    /\ pipeline.built
    /\ pipeline.scheduler = "pretrained"
    /\ ~pipeline.replaced

\* Generation is under way or about to start.
Generating == pc \in {"process_prompts", "validate_prompt", "resolution",
                      "prompt_done"}

FinalizeStep == pc = "finalize" /\ pc' = "clean"
KeepResident(a) == a.keep_vae_loaded \/ a.vae_cache_ondemand

\* C17 as stated: finalize_validation unsets the VAE and the pipeline when no
\* keep-resident option is configured, and leaves both in place when
\* keep_vae_loaded or vae_cache_ondemand is.
C17_FinalizeReleasesOrKeepsBoth ==
    [][FinalizeStep =>
         IF KeepResident(args)
         THEN vae' = vae /\ pipeline' = pipeline
         ELSE vae' = None /\ pipeline' = NoPipeline]_vars

\* C17 as amended: finalize_validation unsets the VAE when no keep-resident
\* option is configured and leaves it in place when keep_vae_loaded or
\* vae_cache_ondemand is; it unsets the pipeline in both cases.
C17_FinalizeReleasesPipelineAndUnkeptVae ==
    [][FinalizeStep =>
         /\ pipeline' = NoPipeline
         /\ vae' = IF KeepResident(args) THEN vae ELSE None]_vars

\* With vae_cache_ondemand alone, the VAE stayed and the pipeline went.
C17_Witness ==
    /\ pc = "clean"
    /\ args.vae_cache_ondemand
    /\ ~args.keep_vae_loaded
    /\ vae = "loaded"
    /\ pipeline = NoPipeline


\* C14: pipeline construction, scheduler setup, image generation and image
\* saving inside run_validations happen only on a process that is the main
\* process or runs under DeepSpeed; on any other process none of them does.
C14_OnlyOnMainOrSharded ==
    (\/ pc \notin {"idle", "aborted"}
     \/ trace # <<>>
     \/ pipeline.built
     \/ vae # None
     \/ validation_images.set
     \/ saved_files # {})
    => (args.is_main_process \/ args.deepspeed)

\* A forced validation has saved an image on a DeepSpeed process that is not
\* the main one.
C14_Witness ==
    /\ ~args.is_main_process
    /\ args.deepspeed
    /\ saved_files # {}
    /\ call.outcome = "returned"


\* C18: every file a validation cycle has written is named after the
\* shortname of the prompt and the resolution its image was generated for,
\* also when an earlier resolution of the prompt failed or several images are
\* generated per resolution.
C18_SavedUnderOwnResolution ==
    \A f \in saved_files :
        /\ f.shortname = f.image.p
        /\ f.res = f.image.r


\* r is the pair of integers the element e ("N" or "WxH") stands for.
IntegerPairFor(r, e) ==
    /\ ~r.none
    /\ r.w.type = "int"
    /\ r.h.type = "int"
    /\ \/ e = Str(r.w.n) /\ r.h.n = r.w.n
       \/ e = (Str(r.w.n) \o <<"x">>) \o Str(r.h.n)

\* C19: get_validation_resolutions returns one (width, height) pair of
\* integers per comma-separated element of the configured resolution, in the
\* same order: (N, N) for an element "N", (W, H) for an element "WxH".
C19_ResolutionsAreIntegerPairs ==
    (parsed.op = "get" /\ parsed.input.type = "str" /\ ~parsed.raised)
    => LET elements == Split(parsed.input.s, ",")
       IN  /\ Len(parsed.value) = Len(elements)
           /\ \A i \in DOMAIN elements :
                 IntegerPairFor(parsed.value[i], elements[i])

\* The input is an edge, or has a width or a height, below 256.
BelowStage2Minimum(input_str) ==
    \E n \in Edges :
        /\ n < 256
        /\ \/ input_str = PyInt(n)
           \/ input_str = PyStr(Str(n))
           \/ \E m \in Edges :
                 \/ input_str = PyStr((Str(n) \o <<"x">>) \o Str(m))
                 \/ input_str = PyStr((Str(m) \o <<"x">>) \o Str(n))

\* C20: under the DeepFloyd stage-2 model type parse_validation_resolution
\* raises, and returns nothing, whenever the edge, the width or the height
\* is below 256; under any other model type it raises on no such input.
C20_Stage2RejectsSmallResolutions ==
    parsed.op = "parse" =>
        /\ (args.model_type = "deepfloyd-stage2-lora"
            /\ BelowStage2Minimum(parsed.input))
           => (parsed.raised /\ parsed.value = <<>>)
        /\ args.model_type # "deepfloyd-stage2-lora" => ~parsed.raised

\* "768x255" was rejected under DeepFloyd stage 2.
C20_Witness ==
    /\ parsed.op = "parse"
    /\ args.model_type = "deepfloyd-stage2-lora"
    /\ parsed.input = PyStr((Str(768) \o <<"x">>) \o Str(255))
    /\ parsed.raised

\* ------------------------------------------------ the Flux transformer
\* The streams as they enter the forward pass, and the merged order the
\* model is specified to use: text tokens, then image tokens.
TextOrigins == [i \in 1..flux.text_len |-> <<"text", i>>]
ImageOrigins == [i \in 1..flux.image_len |-> <<"image", i>>]
TextThenImage ==
    [j \in 1..(flux.text_len + flux.image_len) |->
        IF j <= flux.text_len THEN <<"text", j>>
        ELSE <<"image", j - flux.text_len>>]
NonTrivial(mask) == mask.set /\ \E j \in DOMAIN mask.values : mask.values[j] = 0
Last(seq) == seq[Len(seq)]

\* C21: the mask an attention call hands to the kernel is a boolean keep
\* mask aligned with the key axis, so a key position whose mask entry is 0
\* receives no attention weight.
C21_KernelMaskIsBooleanKeepMask ==
    \A i \in DOMAIN attention_calls :
        LET c == attention_calls[i]
        IN  c.mask.set =>
                /\ c.mask.dtype = "bool"
                /\ Len(c.mask.values) = Len(c.keys)
                /\ \A j \in DOMAIN c.keys :
                       c.mask.values[j] = 0 => ~c.weights[j].attends

\* C22: the mask a block passes to its attention covers the merged token
\* axis, equals the caller's mask on the first text_len positions and is 1 on
\* every image position, in the dual-stream and the merged-stream blocks; a
\* mask whose batch size differs from the hidden state's fails the call with
\* no attention computed.
C22_MaskExpandedOverMergedAxis ==
    /\ \A i \in DOMAIN attention_calls :
           LET c == attention_calls[i]
           IN  flux.attention_mask.set =>
                   /\ c.expanded.set
                   /\ Len(c.expanded.values) = flux.text_len + flux.image_len
                   /\ \A j \in 1..flux.text_len :
                          c.expanded.values[j] = flux.attention_mask.values[j]
                   /\ \A j \in (flux.text_len + 1)..(flux.text_len + flux.image_len) :
                          c.expanded.values[j] = 1
    /\ (flux.attention_mask.set /\ flux.attention_mask.bsz # flux.bsz) =>
           /\ attention_calls = <<>>
           /\ \/ flux.pc = "transformer_blocks"
              \/ flux.pc = "idle" /\ flux.outcome = "AssertionError"
C22_Witness ==
    /\ flux.outcome = "returned"
    /\ NonTrivial(flux.attention_mask)
    /\ \E i, j \in DOMAIN attention_calls :
           /\ attention_calls[i].block[1] = "dual"
           /\ attention_calls[j].block[1] = "single"
           /\ attention_calls[j].expanded.values[flux.text_len + 1] = 1
C22_MismatchWitness ==
    /\ flux.attention_mask.set
    /\ flux.attention_mask.bsz # flux.bsz
    /\ flux.outcome = "AssertionError"

\* C23: a forward pass with a mask that masks some position out and a forward
\* pass without a mask, on the same weights and inputs, return samples that
\* differ.
SameButMask ==
    /\ previous.set
    /\ flux.outcome = "returned"
    /\ previous.kwargs = flux.joint_attention_kwargs
    /\ \/ ~previous.attention_mask.set /\ NonTrivial(flux.attention_mask)
       \/ ~flux.attention_mask.set /\ NonTrivial(previous.attention_mask)
C23_MaskChangesSample == SameButMask => flux.sample # previous.sample
C23_Witness == SameButMask /\ flux.sample # <<>> /\ flux.sample # previous.sample

\* C24: a dual-stream block returns the text stream and the image stream in
\* that order, each with the tokens it was given, and every token received the
\* attention output computed for its own position.
OwnOutputs(stream) ==
    \A i \in DOMAIN stream :
        /\ stream[i].history # <<>>
        /\ Last(stream[i].history).query = Origin(stream[i])
C24_DualBlockKeepsStreams ==
    [][(FluxTransformerBlock /\ flux'.outcome = "running") =>
          /\ Origins(flux'.encoder_hidden_states) = TextOrigins
          /\ Origins(flux'.hidden_states) = ImageOrigins
          /\ OwnOutputs(flux'.encoder_hidden_states)
          /\ OwnOutputs(flux'.hidden_states)]_vars
C24_Witness ==
    /\ flux.pc = "merge"
    /\ flux.text_len # flux.image_len
    /\ Len(flux.encoder_hidden_states) = flux.text_len
    /\ Len(flux.hidden_states) = flux.image_len
    /\ OwnOutputs(flux.encoder_hidden_states)
    /\ OwnOutputs(flux.hidden_states)

\* C25: in every attention call of a forward pass the keys, the sequence the
\* mask was expanded over and the rotary position ids are in the same order,
\* text tokens first and image tokens second; the merged stream of the single
\* blocks is in that order too.
C25_TextTokensFirst ==
    /\ \A i \in DOMAIN attention_calls :
           LET c == attention_calls[i]
           IN  /\ c.keys = TextThenImage
               /\ c.over = TextThenImage
               /\ c.rotary = TextThenImage
    /\ flux.pc \in {"single_transformer_blocks", "output"} =>
           Origins(flux.hidden_states) = TextThenImage
C25_Witness ==
    /\ flux.pc = "output"
    /\ flux.attention_mask.set
    /\ Len(attention_calls) = NumLayers + NumSingleLayers
    /\ attention_calls[1].rotary = TextThenImage
    /\ Origins(flux.hidden_states) = TextThenImage

\* C26: the sample a forward pass returns has one token per image token of
\* the input, in input order, and no text token.
C26_SampleIsImageTokens == flux.outcome = "returned" => Origins(flux.sample) = ImageOrigins
C26_Witness ==
    /\ flux.outcome = "returned"
    /\ flux.text_len # flux.image_len
    /\ Origins(flux.sample) = ImageOrigins

\* C28: a forward pass that scales the adapter layers at entry leaves them,
\* when it returns, at the scaling it found; and the dictionary the caller
\* passed as joint_attention_kwargs is the same after the call.
C28_ScalingUndoneCallerDictKept ==
    [][/\ \A m \in AttentionMasks(flux), k \in JointAttentionKwargs :
             FluxForward(m, k) => flux'.joint_attention_kwargs = k
       /\ FluxOutput => lora_scaling' = flux.entry_scaling]_vars
C28_Witness ==
    /\ flux.outcome = "returned"
    /\ flux.USE_PEFT_BACKEND
    /\ flux.joint_attention_kwargs.has_scale
    /\ flux.lora_scale \in LoraScales
    /\ lora_scaling = flux.entry_scaling

\* ---------------------------------------------- gathering prompt embeds
FourFamilies == {"sdxl", "sd3", "kolors", "flux"}

\* C27: for the sdxl, sd3, kolors and flux families _gather_prompt_embeds
\* raises ValueError exactly when the cache result has an arity other than 2,
\* 3 or 4, and otherwise binds (embed, pooled), (embed, pooled, time ids) or
\* (embed, pooled, time ids, mask) in that order; for every family, a result
\* it returns holds the prompt mask whenever the family takes one.
C27_ArityBranchesAndMask ==
    gathered.called =>
        /\ args.model_family \in FourFamilies =>
               LET e == gathered._embed
               IN  /\ (gathered.raised /\ gathered.exception = "ValueError")
                          <=> Len(e) \notin {2, 3, 4}
                   /\ Len(e) \in {2, 3, 4} =>
                          /\ gathered.bound.prompt_embeds = e[1]
                          /\ gathered.bound.pooled_embeds = e[2]
                          /\ gathered.bound.time_ids =
                                 IF Len(e) \in {3, 4} THEN e[3] ELSE NoTensor
                          /\ gathered.bound.prompt_mask =
                                 IF Len(e) = 4 THEN e[4] ELSE NoTensor
        /\ (~gathered.raised
               /\ (\/ args.model_family \in {"pixart_sigma", "smoldit", "sana"}
                   \/ (args.model_family = "flux"
                        /\ args.flux_attention_masked_training))) =>
               /\ gathered.result.has_prompt_mask
               /\ gathered.result.prompt_mask # NoTensor
C27_Witness ==
    /\ gathered.called
    /\ args.model_family = "flux"
    /\ args.flux_attention_masked_training
    /\ Len(gathered._embed) = 4
    /\ ~gathered.raised
    /\ gathered.result.prompt_mask = Tensor(4)
C27_RejectedWitness ==
    /\ gathered.called
    /\ args.model_family = "sdxl"
    /\ Len(gathered._embed) = 5
    /\ gathered.exception = "ValueError"

\* ------------------------------------------------------------ benchmarks
\* C29: a file save_benchmark stored for a shortname and the resolution its
\* image was generated for has the name _benchmark_image looks up for that
\* shortname and that configured resolution, so the lookup finds it.
C29_SavedBenchmarkIsFound ==
    \A f \in benchmarks.files :
        /\ f.name = _test_filename(f.shortname, Resolution(args, f.r))
        /\ _benchmark_image(benchmarks, f.shortname, Resolution(args, f.r)) # None

\* The iteration of validate_prompt for the current prompt and resolution
\* has collected its results: they are the new tail of the stitched list.
Collected == pc = "resolution" /\ Len(vp'.stitched) > Len(vp.stitched)
Composited == SubSeq(vp'.stitched, Len(vp.stitched) + 1, Len(vp'.stitched))
BenchmarkSavedFor(shortname, r) ==
    \E f \in benchmarks.files : f.shortname = shortname /\ f.r = r

\* C30: every result of one prompt and resolution is composited in exactly
\* one way: with ControlNet it is stitched with its conditioning image and no
\* benchmark is looked up; otherwise, with benchmarks not disabled and a
\* benchmark image stored for the shortname and resolution, it is stitched
\* with the benchmark; otherwise it is reported as generated.
C30_OneCompositingMode ==
    [][Collected =>
          /\ args.controlnet => vp'.benchmark_image = None
          /\ \A i \in DOMAIN Composited :
                 Composited[i].stitch =
                     IF args.controlnet THEN "conditioning"
                     ELSE IF /\ ~args.disable_benchmark
                             /\ BenchmarkSavedFor(prompt_idx, res_idx)
                     THEN "benchmark"
                     ELSE ""]_vars

\* ------------------------------------------- gradient checkpointing
CheckpointingOn == flux.training /\ flux.gradient_checkpointing
OnInterval(index) ==
    ~flux.interval_set \/ index % flux.gradient_checkpointing_interval = 0
CallsOf(kind) ==
    {i \in DOMAIN attention_calls : attention_calls[i].block[1] = kind}

\* C32: no block of either kind runs under checkpointing unless the model is
\* in training mode with gradient checkpointing enabled, and a merged-stream
\* block is checkpointed exactly when the dual-stream block of the same index
\* is.
C32_CheckpointOnlyWhenTrainingSameDecision ==
    /\ \A i \in DOMAIN attention_calls :
           attention_calls[i].checkpointed => CheckpointingOn
    /\ \A i \in CallsOf("dual"), j \in CallsOf("single") :
           attention_calls[i].block[2] = attention_calls[j].block[2] =>
               attention_calls[i].checkpointed = attention_calls[j].checkpointed

\* C33: the dual-stream block at index i runs under checkpointing exactly
\* when the model is training, gradient checkpointing is enabled, and no
\* interval is configured or i is a multiple of the interval.
C33_DualCheckpointPolicy ==
    \A i \in CallsOf("dual") :
        attention_calls[i].checkpointed
            <=> (CheckpointingOn /\ OnInterval(attention_calls[i].block[2]))
C33_Witness ==
    /\ CheckpointingOn
    /\ flux.interval_set
    /\ \E i, j \in CallsOf("dual") :
           /\ attention_calls[i].checkpointed
           /\ ~OnInterval(attention_calls[j].block[2])
           /\ ~attention_calls[j].checkpointed

\* C34: with the model training and gradient checkpointing enabled, every
\* merged-stream block runs under checkpointing, whatever the interval.
C34_SingleAlwaysCheckpointedWhenOn ==
    CheckpointingOn =>
        \A i \in CallsOf("single") : attention_calls[i].checkpointed
C34_Witness ==
    /\ CheckpointingOn
    /\ flux.interval_set
    /\ \E i \in CallsOf("single") :
           /\ ~OnInterval(attention_calls[i].block[2])
           /\ attention_calls[i].checkpointed

\* C35: the blocks of a forward pass run once each in the order dual 0..N-1,
\* merge, single 0..M-1, checkpointed or not, all of them when the pass
\* returns; every block gets the conditioning vector, the rotary embedding and
\* the caller's mask of the pass, and the final norm the same conditioning.
BlocksInOrder ==
    [k \in 1..(flux.num_layers + flux.num_single_layers) |->
        IF k <= flux.num_layers THEN <<"dual", k - 1>>
        ELSE <<"single", k - flux.num_layers - 1>>]
C35_BlocksOnceInOrderSameConditioning ==
    /\ Len(attention_calls) <= flux.num_layers + flux.num_single_layers
    /\ \A i \in DOMAIN attention_calls :
           /\ attention_calls[i].block = BlocksInOrder[i]
           /\ attention_calls[i].temb = flux.temb
           /\ attention_calls[i].rotary = flux.image_rotary_emb
           /\ attention_calls[i].given_mask = flux.attention_mask
           /\ (attention_calls[i].block[1] = "single") =>
                  Len(attention_calls[i].keys) = flux.text_len + flux.image_len
    /\ flux.pc = "merge" => Len(attention_calls) = flux.num_layers
    /\ flux.outcome = "returned" =>
           /\ Len(attention_calls) = flux.num_layers + flux.num_single_layers
           /\ flux.norm_out_emb = flux.temb
C35_Witness ==
    /\ flux.outcome = "returned"
    /\ flux.num_layers = MaxLayers
    /\ flux.num_single_layers = MaxLayers
    /\ flux.attention_mask.set
    /\ Len(attention_calls) = MaxLayers + MaxLayers
    /\ \E i, j \in DOMAIN attention_calls :
           attention_calls[i].checkpointed /\ ~attention_calls[j].checkpointed

\* ------------------------------------------- parsing returns a value
\* C38: parse_validation_resolution returns a 2-tuple or raises; no string
\* input makes it return without a value.
C38_ParseReturnsTupleOrRaises ==
    /\ parsed.op = "parse" =>
           parsed.raised \/ (Len(parsed.value) = 1 /\ ~parsed.value[1].none)
    /\ (parsed.op = "get" /\ ~parsed.raised) =>
           \A i \in DOMAIN parsed.value : ~parsed.value[i].none

\* ----------------------------------------------------------- scoring
\* The evaluator is reached at the end of this prompt: neither the final
\* stitching nor the saving of its images raises.
ReachesEvaluator ==
    /\ pc = "prompt_done"
    /\ args.model_evaluator
    /\ ~FinishRaises(args, vp)
    /\ ~SaveRaises(args, FinishPrompt(args, vp).stitched)

\* C31: with an evaluator, the scores are empty when a cycle starts on its
\* prompts, a shortname scored in the cycle keeps its score, and after each
\* prompt the result is set to the minimum, the maximum and the mean of all
\* scores of the cycle, with min <= mean <= max.
C31_ScoresPerCycle ==
    [][/\ (pc # "validate_prompt" /\ pc' = "validate_prompt" /\ prompt_idx' = 1)
           => eval_scores' = <<>>
       /\ ReachesEvaluator =>
              /\ \A p \in DOMAIN eval_scores :
                     p \in DOMAIN eval_scores' /\ eval_scores'[p] = eval_scores[p]
              /\ evaluation_result'.set
              /\ evaluation_result'.n = Cardinality(DOMAIN eval_scores')
              /\ evaluation_result'.n >= 1
              /\ evaluation_result'.sum = SumValues(eval_scores')
              /\ evaluation_result'.min \in Values(eval_scores')
              /\ evaluation_result'.max \in Values(eval_scores')
              /\ \A v \in Values(eval_scores') :
                     evaluation_result'.min <= v /\ v <= evaluation_result'.max
              /\ evaluation_result'.min * evaluation_result'.n <= evaluation_result'.sum
              /\ evaluation_result'.sum <= evaluation_result'.max * evaluation_result'.n
      ]_vars

\* ------------------------------------------- the images that are scored
\* C36: the images kept as checkpoint_validation_images, which the evaluator
\* scores, are the pipeline's outputs as generated: no benchmark and no
\* conditioning image is stitched into any of them.
C36_ScoredImagesAreRaw ==
    \A i \in DOMAIN vp.checkpoint : vp.checkpoint[i].stitch = ""

\* --------------------------------------- what a cycle leaves behind
\* C37: when run_validations has returned, the pipeline reference is unset
\* and the multiplier of a LyCORIS-wrapped network is back at 1.0.
C37_ReturnLeavesNoPipelineUnitMultiplier ==
    (pc = "idle" /\ call.outcome = "returned") =>
        /\ pipeline = NoPipeline
        /\ HasLycoris(args) => multiplier = UnitMultiplier

\* A cycle that ran under the validation strength has returned.
C37_Witness ==
    /\ pc = "idle"
    /\ call.outcome = "returned"
    /\ HasLycoris(args)
    /\ args.validation_lycoris_strength # UnitMultiplier
    /\ validation_images.set
    /\ pipeline = NoPipeline
    /\ multiplier = UnitMultiplier

\* ---------------------------------------------- the generation passes
\* The pipeline invocations of the cycle so far, completed or raised.
IsInvocation(e) ==
    e.ev \in {"generate_train", "generate_ema", "generate_raised"}
Invocations == SelectSeq(trace, IsInvocation)

\* C39: the passes of a prompt and resolution are those of the EMA mode
\* ("checkpoint" alone, "ema" alone, or "checkpoint" then "ema"), and every
\* "checkpoint" pass samples the live training weights, every "ema" pass
\* the EMA weights.
C39_PassesOfModeOnOwnWeights ==
    LET mode == IF args.use_ema THEN args.ema_validation ELSE "none"
    IN  \A i \in DOMAIN Invocations :
            LET e == Invocations[i] IN
            /\ mode = "ema_only" => e.t = "ema"
            /\ mode \notin {"ema_only", "comparison"} => e.t = "checkpoint"
            /\ (mode = "comparison" /\ e.t = "ema") =>
                   /\ i > 1
                   /\ Invocations[i - 1].ev # "generate_raised"
                   /\ Invocations[i - 1].t = "checkpoint"
                   /\ Invocations[i - 1].p = e.p
                   /\ Invocations[i - 1].r = e.r
            /\ (mode = "comparison" /\ e.t = "checkpoint" /\ i > 1) =>
                   \/ Invocations[i - 1].t = "ema"
                   \/ Invocations[i - 1].ev = "generate_raised"
            /\ (e.t = "checkpoint" /\ e.ev # "generate_raised") =>
                   e.ev = "generate_train"
            /\ (e.t = "ema" /\ e.ev # "generate_raised") =>
                   e.ev = "generate_ema"

\* ------------------------------------------------------------- seeds
\* The seed the configuration asks for: validation_seed if set and not zero,
\* else the training seed if set and not zero, else 0.
ConfiguredSeed ==
    IF args.validation_seed.set /\ args.validation_seed.n # 0
    THEN args.validation_seed.n
    ELSE IF args.seed.set /\ args.seed.n # 0 THEN args.seed.n
    ELSE 0

\* Every image generated so far, in this cycle or an earlier one.
GeneratedImages ==
    {vp.checkpoint[i] : i \in DOMAIN vp.checkpoint}
    \cup {vp.ema[i] : i \in DOMAIN vp.ema}
    \cup {vp.stitched[i] : i \in DOMAIN vp.stitched}
    \cup {f.image : f \in saved_files}

\* C40: without validation_randomize every pipeline invocation, of every
\* prompt, resolution and pass of every cycle, is given a generator seeded
\* with the configured seed.
C40_EveryInvocationSeededAlike ==
    ~args.validation_randomize =>
        \A image \in GeneratedImages :
            image.generator = [given |-> TRUE, seed |-> ConfiguredSeed]

\* A second cycle has generated its checkpoint and EMA images, the first
\* one's are saved, and the seed is the training seed because the validation
\* seed is 0.
C40_Witness ==
    /\ ~args.validation_randomize
    /\ args.validation_seed.set
    /\ args.validation_seed.n = 0
    /\ Truthy(args.seed)
    /\ pc = "prompt_done"
    /\ \E i \in DOMAIN vp.ema : vp.ema[i].r = NumRes
    /\ \E i \in DOMAIN vp.checkpoint : vp.checkpoint[i].r = 1
    /\ \E f \in saved_files : f.step # tracker_step
====
